---- MODULE Spec2Model ----
(***************************************************************************)
(* A model of the routines of the repository, each with a specification of *)
(* its own:                                                                *)
(*   - load_vdata_from_file (run_local_vdata.py): the format-detection     *)
(*     cascade that decodes a VData file of unknown encoding;              *)
(*   - parse_log_file / _parse_block (gui.py): the solver-log parser;      *)
(*   - the CollectionStore of the design document (toggle, list_all);      *)
(*   - the solve button, SolverWorker and its subprocess (gui.py);         *)
(*   - setup_logging (logging_config.py).                                  *)
(*                                                                         *)
(* Bytes and characters are abstracted to character classes.  The results  *)
(* of the library calls whose code is outside the repository (protobuf     *)
(* ParseFromString, json.loads, json_format.Parse) are properties of the   *)
(* input file, fixed when the file is chosen.                              *)
(***************************************************************************)
EXTENDS Integers, Sequences, FiniteSets, TLC

VARIABLES
    \* ---- load_vdata_from_file ----
    blob,       \* the file at `path`: does it exist, its bytes, what the parsers make of them
    dpc,        \* position of load_vdata_from_file
    text,       \* local `text` (line 61), <<>> before it is assigned
    attempts,   \* the decode attempts made so far, in order
    result,     \* what the call returned or raised; NoResult while it runs
    \* ---- parse_log_file ----
    file,       \* the log file: a sequence of raw lines, each a sequence of characters
    readable,   \* can the file be opened
    ppc,        \* position of parse_log_file
    nread,      \* number of lines the `for line in fh` loop has consumed
    lines,      \* local `lines` (line 129)
    parts,      \* local `parts` (line 140), <<>> before it is assigned
    idx,        \* loop variable `i` of line 141 (0-based, as in the source)
    combos,     \* local `combos` (line 126)
    blines,     \* local `lines` of the running _parse_block (line 155)
    scan,       \* the other locals of the running _parse_block and its position
    ioerr,      \* has open() or a read of the file raised
    ret,        \* the value parse_log_file returned, <<>> while it runs
    \* ---- _parse_block called on its own ----
    block,      \* parameter `block` (line 149)
    rec,        \* the dict the call returned (line 176), NoRecord while it runs
    \* ---- CollectionStore ----
    store,      \* the persistence surface: the set of <<key, persisted record>> units
    ncallers,   \* how many threads or processes use the store
    locking,    \* is toggle serialised per key by a mutex
    lock,       \* per key, the caller holding its mutex, 0 when free
    cpc,        \* per caller, the position of its toggle call
    arg,        \* per caller, the record passed to its toggle call
    seen,       \* per caller, what its existence check found
    started,    \* number of toggle calls begun
    reports,    \* the completed toggle calls, in order of their write-or-delete
    listed,     \* what the last list_all returned
    \* ---- the solve button, SolverWorker and its subprocess ----
    solve_button,   \* is the solve button enabled
    loading_label,  \* is the loading overlay shown
    output_edit,    \* number of texts in the output area
    result_window,  \* has a ResultWindow been opened
    solver_worker,  \* the SolverWorker made last (their number as well), 0 before the first
    wpc,            \* per SolverWorker, the position of its thread in run()
    proc,           \* per SolverWorker, its subprocess: "none", "running", "ended"
    written,        \* per SolverWorker, the lines its subprocess has written
    pending,        \* per SolverWorker, the lines written and not yet read
    emitted,        \* per SolverWorker, the signals it has emitted, in order
    events,         \* the queued signals the GUI thread has still to deliver
    \* ---- setup_logging ----
    handlers,       \* logging.getLogger().handlers, each with the call that made it
    root_level,     \* the level of the root logger
    excepthook,     \* sys.excepthook: 0 the interpreter's own, k the hook of the k-th call
    log_dirs,       \* the log directories the calls have made sure of
    log_files,      \* the log files created, named by the call that created them
    logged,         \* number of records the handlers of the root logger have handled
    ncalls,         \* number of calls of setup_logging so far
    last_call       \* the arguments and the file system answers of the last call

dvars == <<blob, dpc, text, attempts, result>>
pvars == <<file, readable, ppc, nread, lines, parts, idx, combos, blines, scan, ioerr, ret>>
bvars == <<block, rec>>
vars == <<blob, dpc, text, attempts, result,
          file, readable, ppc, nread, lines, parts, idx, combos, blines, scan, ioerr, ret,
          block, rec,
          store, ncallers, locking, lock, cpc, arg, seen, started, reports, listed,
          solve_button, loading_label, output_edit, result_window, solver_worker,
          wpc, proc, written, pending, emitted, events,
          handlers, root_level, excepthook, log_dirs, log_files, logged, ncalls, last_call>>
lvars == <<handlers, root_level, excepthook, log_dirs, log_files, logged, ncalls, last_call>>
gvars == <<solve_button, loading_label, output_edit, result_window, solver_worker,
           wpc, proc, written, pending, emitted, events>>
cvars == <<store, ncallers, locking, lock, cpc, arg, seen, started, reports, listed>>

\* The variables of the routines other than the one an action belongs to.
restOfDecode == <<pvars, bvars, cvars, gvars, lvars>>
restOfParse == <<dvars, bvars, cvars, gvars, lvars>>
restOfStore == <<dvars, pvars, bvars, gvars, lvars>>
restOfSolve == <<dvars, pvars, bvars, cvars, lvars>>
restOfLogging == <<dvars, pvars, bvars, cvars, gvars>>

(***************************************************************************)
(* Generic helpers on sequences.                                           *)
(***************************************************************************)
\* The sequences over S of length n, and of length at most n.
RECURSIVE SeqsOfLen(_, _)
SeqsOfLen(S, n) ==
    IF n = 0 THEN {<<>>}
    ELSE {Append(s, x) : s \in SeqsOfLen(S, n - 1), x \in S}

SeqsUpTo(S, n) == UNION {SeqsOfLen(S, k) : k \in 0..n}

Range(s) == {s[k] : k \in 1..Len(s)}

\* s[k] of a Python list, whose indices start at 0.
At0(s, k) == s[k + 1]

IsPrefix(s, t) == Len(s) <= Len(t) /\ \A k \in 1..Len(s) : s[k] = t[k]

(***************************************************************************)
(*                        load_vdata_from_file                             *)
(***************************************************************************)

\* Longest file content, in bytes, that is enumerated.
MaxText == 5

\* Byte classes of the file content:
\*   "A"   a character of the base64 alphabet  [A-Za-z0-9+/]
\*   "="   the base64 padding character
\*   "ws"  ASCII whitespace (removed by str.strip)
\*   "o"   any other character of valid UTF-8 text, such as { " [ :
\*   "x80" a byte that is not valid UTF-8 (a lone continuation byte)
ByteClasses == {"A", "=", "ws", "o", "x80"}

\* bytes.decode("utf-8") succeeds iff no byte is invalid.
Utf8Valid(bytes) == "x80" \notin Range(bytes)

\* str.strip(): leading and trailing whitespace removed, inner whitespace kept.
RECURSIVE LStrip(_)
LStrip(s) == IF s # <<>> /\ Head(s) = "ws" THEN LStrip(Tail(s)) ELSE s

RECURSIVE RStrip(_)
RStrip(s) ==
    IF s # <<>> /\ s[Len(s)] = "ws" THEN RStrip(SubSeq(s, 1, Len(s) - 1)) ELSE s

Strip(s) == RStrip(LStrip(s))

\* Number of trailing "=" characters.
RECURSIVE PadCount(_)
PadCount(s) ==
    IF s # <<>> /\ s[Len(s)] = "=" THEN 1 + PadCount(SubSeq(s, 1, Len(s) - 1)) ELSE 0

\* The padding of a text of n alphabet characters followed by pad "=":
\*   "ok"       accepted by every version of the base64 library
\*   "depends"  surplus padding, accepted by some versions of the library and
\*              rejected by others
\*   "bad"      rejected by every version
PadForm(n, pad) ==
    IF \/ n % 4 = 0 /\ pad = 0
       \/ n % 4 = 0 /\ n > 0 /\ pad \in 1..2
       \/ n % 4 = 2 /\ pad = 2
       \/ n % 4 = 3 /\ pad = 1
    THEN "ok"
    ELSE IF \/ n = 0 /\ pad \in 1..2
            \/ n % 4 = 0 /\ n > 0 /\ pad = 3
            \/ n % 4 = 3 /\ pad = 2
    THEN "depends"
    ELSE "bad"

\* The text is alphabet characters followed by padding of the given form.
HasPadForm(s, form) ==
    LET pad == PadCount(s)
    IN  /\ \A k \in 1..(Len(s) - pad) : s[k] = "A"
        /\ PadForm(Len(s) - pad, pad) = form

\* Faulty variant of B64Valid: validate=False, where characters outside the
\* alphabet are discarded before decoding.
B64SkipsNonAlphabet(s, lenient) ==
    LET kept == SelectSeq(s, LAMBDA c : c \in {"A", "="})
    IN  HasPadForm(kept, "ok") \/ (lenient /\ HasPadForm(kept, "depends"))

\* base64.b64decode(s, validate=True) returns (does not raise binascii.Error):
\* every character is of the alphabet or trailing padding, and the padding
\* fits; lenient tells whether the library in use accepts surplus padding.
B64Valid(s, lenient) ==
    HasPadForm(s, "ok") \/ (lenient /\ HasPadForm(s, "depends"))

\* What the library parsers make of the file content.  The message schema and
\* the parsers are outside the repository, so their verdicts are inputs:
\*   wrap      SyncContainerData().ParseFromString(data): "err" (DecodeError),
\*             "noV" (parsed, VData absent), "hasV" (parsed, VData present)
\*   direct    CharSerialize().ParseFromString(data): "err" | "ok"
\*   lenient   does base64.b64decode accept surplus padding (TRUE | FALSE)
\*   rawDirect CharSerialize().ParseFromString(b64decode(text)): "err" | "ok",
\*             "na" when text is not base64
\*   json      json.loads(text): "invalid" (JSONDecodeError) | "valid"
\*   jd        json_format.Parse(.., CharSerialize()): "err" | "ok"
\*   jw        json_format.Parse(.., SyncContainerData()): "err" | "noV" | "hasV"
\* Constraints that hold of every real file:
\*   - the empty buffer parses as an empty message of either schema;
\*   - base64 of the empty string is the empty buffer;
\*   - JSON text has at least one character, holds no "=" or whitespace outside
\*     a string literal, and a text of alphabet characters only is a bare
\*     number / true / false / null, which is no message of either schema.
BinOracles(bytes) ==
    IF bytes = <<>> THEN {<<"noV", "ok">>}
    ELSE {"err", "noV", "hasV"} \X {"err", "ok"}

PadOracles(bytes) ==
    IF Utf8Valid(bytes) /\ HasPadForm(Strip(bytes), "depends")
    THEN BOOLEAN
    ELSE {FALSE}

RawOracles(bytes, lenient) ==
    IF ~Utf8Valid(bytes) \/ ~B64Valid(Strip(bytes), lenient) THEN {"na"}
    ELSE IF "A" \notin Range(bytes) THEN {"ok"}
    ELSE {"err", "ok"}

JsonOracles(bytes) ==
    LET s == Strip(bytes)
    IN  IF ~Utf8Valid(bytes) \/ s = <<>> THEN {<<"invalid", "err", "err">>}
        ELSE IF "o" \in Range(s)
             THEN {<<"invalid", "err", "err">>}
                  \cup ({"valid"} \X {"err", "ok"} \X {"err", "noV", "hasV"})
        ELSE IF Range(s) = {"A"}
             THEN {<<"invalid", "err", "err">>, <<"valid", "err", "err">>}
        ELSE {<<"invalid", "err", "err">>}

\* No file at `path`.
NoBlob ==
    [exists |-> FALSE, bytes |-> <<>>, wrap |-> "err", direct |-> "err",
     lenient |-> FALSE, rawDirect |-> "na", json |-> "invalid", jd |-> "err", jw |-> "err"]

\* A file with content b and the verdicts bo, po, ro, jo of the libraries on it.
BlobOf(b, bo, po, ro, jo) ==
    [exists |-> TRUE, bytes |-> b, wrap |-> bo[1], direct |-> bo[2],
     lenient |-> po, rawDirect |-> ro, json |-> jo[1], jd |-> jo[2], jw |-> jo[3]]

\* Return values and exceptions of load_vdata_from_file.
NoResult == [kind |-> "none", step |-> "none", value |-> "none",
             exc |-> "none", msg |-> "none", diag |-> "none"]

Return(step, value) ==
    [kind |-> "return", step |-> step, value |-> value,
     exc |-> "none", msg |-> "none", diag |-> "none"]

Raise(exc, msg, diag) ==
    [kind |-> "raise", step |-> "none", value |-> "none",
     exc |-> exc, msg |-> msg, diag |-> diag]

Finish(r) ==
    /\ result' = r
    /\ dpc' = "done"

\* Faulty variant of ReadFile: the direct schema is tried before the wrapper.
ReadFileDirectFirst ==
    /\ dpc = "start"
    /\ IF ~blob.exists
       THEN Finish(Raise("FileNotFoundError", "NotFound", "none"))
       ELSE dpc' = "s2" /\ UNCHANGED result
    /\ UNCHANGED <<blob, text, attempts>>
    /\ UNCHANGED restOfDecode

\* lines 36-40
ReadFile ==
    /\ dpc = "start"
    /\ IF ~blob.exists
       THEN Finish(Raise("FileNotFoundError", "NotFound", "none"))
       ELSE dpc' = "s1" /\ UNCHANGED result
    /\ UNCHANGED <<blob, text, attempts>>
    /\ UNCHANGED restOfDecode

\* Faulty variant of TryBinaryWrapper: HasField("VData") is not tested.
TryBinaryWrapperNoHasField ==
    /\ dpc = "s1"
    /\ attempts' = Append(attempts, "binWrapper")
    /\ IF blob.wrap # "err"
       THEN Finish(Return("binWrapper", "bin.VData"))
       ELSE dpc' = "s2" /\ UNCHANGED result
    /\ UNCHANGED <<blob, text>>
    /\ UNCHANGED restOfDecode

\* lines 42-49
TryBinaryWrapper ==
    /\ dpc = "s1"
    /\ attempts' = Append(attempts, "binWrapper")
    /\ IF blob.wrap = "hasV"
       THEN Finish(Return("binWrapper", "bin.VData"))
       ELSE dpc' = "s2" /\ UNCHANGED result
    /\ UNCHANGED <<blob, text>>
    /\ UNCHANGED restOfDecode

\* Faulty variant of TryBinaryDirect: bytes that are also text are left to the
\* text attempts.
TryBinaryDirectPrefersText ==
    /\ dpc = "s2"
    /\ attempts' = Append(attempts, "binDirect")
    /\ IF blob.direct = "ok" /\ ~Utf8Valid(blob.bytes)
       THEN Finish(Return("binDirect", "bin"))
       ELSE dpc' = "s3" /\ UNCHANGED result
    /\ UNCHANGED <<blob, text>>
    /\ UNCHANGED restOfDecode

\* lines 51-57
TryBinaryDirect ==
    /\ dpc = "s2"
    /\ attempts' = Append(attempts, "binDirect")
    /\ IF blob.direct = "ok"
       THEN Finish(Return("binDirect", "bin"))
       ELSE dpc' = "s3" /\ UNCHANGED result
    /\ UNCHANGED <<blob, text>>
    /\ UNCHANGED restOfDecode

\* Faulty variant of DecodeUtf8: decode(errors="ignore"), which drops the
\* invalid bytes and goes on.
DecodeUtf8Lenient ==
    /\ dpc = "s3"
    /\ attempts' = Append(attempts, "utf8")
    /\ text' = Strip(SelectSeq(blob.bytes, LAMBDA c : c # "x80"))
    /\ dpc' = "s3a"
    /\ UNCHANGED <<blob, result>>
    /\ UNCHANGED restOfDecode

\* lines 59-63
DecodeUtf8 ==
    /\ dpc = "s3"
    /\ attempts' = Append(attempts, "utf8")
    /\ IF Utf8Valid(blob.bytes)
       THEN /\ text' = Strip(blob.bytes)
            /\ dpc' = "s3a"
            /\ UNCHANGED result
       ELSE /\ Finish(Raise("ValueError", "NotText", "none"))
            /\ UNCHANGED text
    /\ UNCHANGED blob
    /\ UNCHANGED restOfDecode

\* lines 65-72
TryBase64 ==
    /\ dpc = "s3a"
    /\ attempts' = Append(attempts, "base64")
    /\ IF B64Valid(text, blob.lenient) /\ blob.rawDirect = "ok"
       THEN Finish(Return("base64", "b64"))
       ELSE dpc' = "s3b" /\ UNCHANGED result
    /\ UNCHANGED <<blob, text>>
    /\ UNCHANGED restOfDecode

\* Faulty variant of LoadJson: the JSONDecodeError is swallowed like the errors
\* of the other attempts.
LoadJsonSwallows ==
    /\ dpc = "s3b"
    /\ attempts' = Append(attempts, "jsonLoads")
    /\ IF blob.json = "valid"
       THEN dpc' = "s3b1" /\ UNCHANGED result
       ELSE Finish(Raise("ValueError", "Unrecognized", "none"))
    /\ UNCHANGED <<blob, text>>
    /\ UNCHANGED restOfDecode

\* lines 74-78
LoadJson ==
    /\ dpc = "s3b"
    /\ attempts' = Append(attempts, "jsonLoads")
    /\ IF blob.json = "valid"
       THEN dpc' = "s3b1" /\ UNCHANGED result
       ELSE Finish(Raise("ValueError", "NotJson", "JSONDecodeError"))
    /\ UNCHANGED <<blob, text>>
    /\ UNCHANGED restOfDecode

\* lines 80-86
TryJsonDirect ==
    /\ dpc = "s3b1"
    /\ attempts' = Append(attempts, "jsonDirect")
    /\ IF blob.jd = "ok"
       THEN Finish(Return("jsonDirect", "json"))
       ELSE dpc' = "s3b2" /\ UNCHANGED result
    /\ UNCHANGED <<blob, text>>
    /\ UNCHANGED restOfDecode

\* Faulty variant of TryJsonWrapper: HasField("VData") is not tested.
TryJsonWrapperNoHasField ==
    /\ dpc = "s3b2"
    /\ attempts' = Append(attempts, "jsonWrapper")
    /\ IF blob.jw # "err"
       THEN Finish(Return("jsonWrapper", "json.VData"))
       ELSE Finish(Raise("ValueError", "Unrecognized", "none"))
    /\ UNCHANGED <<blob, text>>
    /\ UNCHANGED restOfDecode

\* lines 88-97
TryJsonWrapper ==
    /\ dpc = "s3b2"
    /\ attempts' = Append(attempts, "jsonWrapper")
    /\ IF blob.jw = "hasV"
       THEN Finish(Return("jsonWrapper", "json.VData"))
       ELSE Finish(Raise("ValueError", "Unrecognized", "none"))
    /\ UNCHANGED <<blob, text>>
    /\ UNCHANGED restOfDecode

DecodeNext ==
    \/ ReadFile
    \/ TryBinaryWrapper
    \/ TryBinaryDirect
    \/ DecodeUtf8
    \/ TryBase64
    \/ LoadJson
    \/ TryJsonDirect
    \/ TryJsonWrapper

(***************************************************************************)
(*                    parse_log_file and _parse_block                      *)
(***************************************************************************)

\* Largest number of lines of an enumerated log file.
MaxLines == 3

\* Character classes of the log text.  A marker is one unit:
\*   "sp"    whitespace other than a line boundary (space, tab)
\*   "ff"    whitespace that str.splitlines also treats as a line boundary but
\*           file iteration does not (form feed, U+2028, ...)
\*   "nl"    the "\n" that joins the kept lines (line 138)
\*   "eq50"  fifty "=" characters
\*   "title" 模组搭配优化 -
\*   "stat"  统计信息
\*   "h1"    === 第1名搭配 ===        "h2"    === 第2名搭配 ===
\*   "tot"   总属性值      "pow"  战斗力
\*   "mod"   模组列表      "attr" 属性分布
\*   "x"     any other text
IsSpace(c) == c \in {"sp", "ff", "nl"}

\* str.strip() on log text.
RECURSIVE LStripLine(_)
LStripLine(s) == IF s # <<>> /\ IsSpace(Head(s)) THEN LStripLine(Tail(s)) ELSE s

RECURSIVE RStripLine(_)
RStripLine(s) ==
    IF s # <<>> /\ IsSpace(s[Len(s)])
    THEN RStripLine(SubSeq(s, 1, Len(s) - 1))
    ELSE s

StripLine(s) == RStripLine(LStripLine(s))

\* str.startswith(marker)
StartsWith(s, marker) == s # <<>> /\ Head(s) = marker

\* The raw lines a log file is made of (without their line terminator).
LineChoices ==
    { <<"h1">>, <<"h2">>,
      <<"stat">>, <<"sp", "stat", "x">>,
      <<"eq50">>, <<"title", "x">>, <<"sp">>,
      <<"tot", "x">>, <<"mod">>, <<"attr">>, <<"sp", "x">>,
      <<"x", "h2", "attr">> }

\* "\n".join(lines)
RECURSIVE Join(_)
Join(ls) ==
    IF ls = <<>> THEN <<>>
    ELSE IF Len(ls) = 1 THEN ls[1]
    ELSE ls[1] \o <<"nl">> \o Join(Tail(ls))

IsHeader(c) == c \in {"h1", "h2"}

\* The group (\d+) of the header pattern.
RankDigits(c) == IF c = "h1" THEN <<"1">> ELSE <<"2">>

\* Faulty variant of ReSplitFrom: the header is recognised only when it is a
\* whole line of the text (the pattern anchored with ^ and $ per line).
RECURSIVE ReSplitWholeLines(_, _)
ReSplitWholeLines(t, cur) ==
    IF t = <<>> THEN <<cur>>
    ELSE IF /\ IsHeader(Head(t))
            /\ (cur = <<>> \/ cur[Len(cur)] = "nl")
            /\ (Tail(t) = <<>> \/ Head(Tail(t)) = "nl")
         THEN <<cur, RankDigits(Head(t))>> \o ReSplitWholeLines(Tail(t), <<>>)
         ELSE ReSplitWholeLines(Tail(t), Append(cur, Head(t)))

\* re.split(pattern, text) with one capturing group:
\* [before, rank, between, rank, between, ...]; `cur` is the piece being built.
RECURSIVE ReSplitFrom(_, _)
ReSplitFrom(t, cur) ==
    IF t = <<>> THEN <<cur>>
    ELSE IF IsHeader(Head(t))
         THEN <<cur, RankDigits(Head(t))>> \o ReSplitFrom(Tail(t), <<>>)
         ELSE ReSplitFrom(Tail(t), Append(cur, Head(t)))

ReSplit(t) == ReSplitFrom(t, <<>>)

\* str.splitlines(): pieces between line boundaries.
RECURSIVE SplitLinesFrom(_, _)
SplitLinesFrom(t, cur) ==
    IF t = <<>> THEN (IF cur = <<>> THEN <<>> ELSE <<cur>>)
    ELSE IF Head(t) \in {"nl", "ff"}
         THEN <<cur>> \o SplitLinesFrom(Tail(t), <<>>)
         ELSE SplitLinesFrom(Tail(t), Append(cur, Head(t)))

SplitLines(t) == SplitLinesFrom(t, <<>>)

\* line 155: lines = [l for l in block.splitlines() if l.strip()]
BlockLines(blk) == SelectSeq(SplitLines(blk), LAMBDA l : StripLine(l) # <<>>)

\* The locals of _parse_block at the head of one of its three loops:
\* loc = "outer" (line 157), "mods" (line 165), "attrs" (line 171), "ret" (line 176).
\* i is the 1-based index of the next line.
ScanInit ==
    [loc |-> "outer", i |-> 1, total |-> <<>>, power |-> <<>>,
     modules |-> <<>>, attrs |-> <<>>]

\* Faulty variant of ScanStep: a total or power line is kept only when none
\* was seen before (the first write wins).
ScanStepFirstWins(ls, s) ==
    IF s.loc = "outer" THEN
        IF s.i <= Len(ls) THEN
            LET line == StripLine(ls[s.i]) IN
            IF StartsWith(line, "tot")
            THEN [s EXCEPT !.total = IF s.total = <<>> THEN line ELSE s.total, !.i = s.i + 1]
            ELSE IF StartsWith(line, "pow")
            THEN [s EXCEPT !.power = IF s.power = <<>> THEN line ELSE s.power, !.i = s.i + 1]
            ELSE IF StartsWith(line, "mod") THEN [s EXCEPT !.loc = "mods", !.i = s.i + 1]
            ELSE IF StartsWith(line, "attr") THEN [s EXCEPT !.loc = "attrs", !.i = s.i + 1]
            ELSE [s EXCEPT !.i = s.i + 1]
        ELSE [s EXCEPT !.loc = "ret"]
    ELSE IF s.loc = "mods" THEN
        IF s.i <= Len(ls) /\ ~StartsWith(ls[s.i], "attr")
        THEN [s EXCEPT !.modules = Append(s.modules, StripLine(ls[s.i])), !.i = s.i + 1]
        ELSE [s EXCEPT !.loc = "outer"]
    ELSE IF s.loc = "attrs" THEN
        IF s.i <= Len(ls)
        THEN [s EXCEPT !.attrs = Append(s.attrs, StripLine(ls[s.i])), !.i = s.i + 1]
        ELSE [s EXCEPT !.loc = "ret"]
    ELSE s

\* Faulty variant of ScanStep: inside the attribute distribution a total line
\* is still recognised.
ScanStepAttrsNotTerminal(ls, s) ==
    IF s.loc = "outer" THEN
        IF s.i <= Len(ls) THEN
            LET line == StripLine(ls[s.i]) IN
            IF StartsWith(line, "tot") THEN [s EXCEPT !.total = line, !.i = s.i + 1]
            ELSE IF StartsWith(line, "pow") THEN [s EXCEPT !.power = line, !.i = s.i + 1]
            ELSE IF StartsWith(line, "mod") THEN [s EXCEPT !.loc = "mods", !.i = s.i + 1]
            ELSE IF StartsWith(line, "attr") THEN [s EXCEPT !.loc = "attrs", !.i = s.i + 1]
            ELSE [s EXCEPT !.i = s.i + 1]
        ELSE [s EXCEPT !.loc = "ret"]
    ELSE IF s.loc = "mods" THEN
        IF s.i <= Len(ls) /\ ~StartsWith(ls[s.i], "attr")
        THEN [s EXCEPT !.modules = Append(s.modules, StripLine(ls[s.i])), !.i = s.i + 1]
        ELSE [s EXCEPT !.loc = "outer"]
    ELSE IF s.loc = "attrs" THEN
        IF s.i <= Len(ls)
        THEN IF StartsWith(StripLine(ls[s.i]), "tot")
             THEN [s EXCEPT !.total = StripLine(ls[s.i]), !.i = s.i + 1]
             ELSE [s EXCEPT !.attrs = Append(s.attrs, StripLine(ls[s.i])), !.i = s.i + 1]
        ELSE [s EXCEPT !.loc = "ret"]
    ELSE s

\* Faulty variant of ScanStep: the module loop also ends at a line starting
\* with the total-attribute-value marker, which the marker checks then take,
\* and a later module-list line opens the module list again.
ScanStepModsEndAtTotal(ls, s) ==
    IF s.loc = "outer" THEN
        IF s.i <= Len(ls) THEN
            LET line == StripLine(ls[s.i]) IN
            IF StartsWith(line, "tot") THEN [s EXCEPT !.total = line, !.i = s.i + 1]
            ELSE IF StartsWith(line, "pow") THEN [s EXCEPT !.power = line, !.i = s.i + 1]
            ELSE IF StartsWith(line, "mod") THEN [s EXCEPT !.loc = "mods", !.i = s.i + 1]
            ELSE IF StartsWith(line, "attr") THEN [s EXCEPT !.loc = "attrs", !.i = s.i + 1]
            ELSE [s EXCEPT !.i = s.i + 1]
        ELSE [s EXCEPT !.loc = "ret"]
    ELSE IF s.loc = "mods" THEN
        IF /\ s.i <= Len(ls)
           /\ ~StartsWith(ls[s.i], "attr")
           /\ ~StartsWith(ls[s.i], "tot")
        THEN [s EXCEPT !.modules = Append(s.modules, StripLine(ls[s.i])), !.i = s.i + 1]
        ELSE [s EXCEPT !.loc = "outer"]
    ELSE IF s.loc = "attrs" THEN
        IF s.i <= Len(ls)
        THEN [s EXCEPT !.attrs = Append(s.attrs, StripLine(ls[s.i])), !.i = s.i + 1]
        ELSE [s EXCEPT !.loc = "ret"]
    ELSE s

\* Faulty variant of ScanStep: the module-list line is not stepped over (the
\* `i += 1` of line 164 is missing), so the module loop takes it as a module.
ScanStepModsKeepMarker(ls, s) ==
    IF s.loc = "outer" THEN
        IF s.i <= Len(ls) THEN
            LET line == StripLine(ls[s.i]) IN
            IF StartsWith(line, "tot") THEN [s EXCEPT !.total = line, !.i = s.i + 1]
            ELSE IF StartsWith(line, "pow") THEN [s EXCEPT !.power = line, !.i = s.i + 1]
            ELSE IF StartsWith(line, "mod") THEN [s EXCEPT !.loc = "mods"]
            ELSE IF StartsWith(line, "attr") THEN [s EXCEPT !.loc = "attrs", !.i = s.i + 1]
            ELSE [s EXCEPT !.i = s.i + 1]
        ELSE [s EXCEPT !.loc = "ret"]
    ELSE IF s.loc = "mods" THEN
        IF s.i <= Len(ls) /\ ~StartsWith(ls[s.i], "attr")
        THEN [s EXCEPT !.modules = Append(s.modules, StripLine(ls[s.i])), !.i = s.i + 1]
        ELSE [s EXCEPT !.loc = "outer"]
    ELSE IF s.loc = "attrs" THEN
        IF s.i <= Len(ls)
        THEN [s EXCEPT !.attrs = Append(s.attrs, StripLine(ls[s.i])), !.i = s.i + 1]
        ELSE [s EXCEPT !.loc = "ret"]
    ELSE s

\* One evaluation of a loop condition, and the loop body when it holds.
ScanStep(ls, s) ==
    IF s.loc = "outer" THEN
        IF s.i <= Len(ls) THEN
            LET line == StripLine(ls[s.i]) IN
            IF StartsWith(line, "tot") THEN [s EXCEPT !.total = line, !.i = s.i + 1]
            ELSE IF StartsWith(line, "pow") THEN [s EXCEPT !.power = line, !.i = s.i + 1]
            ELSE IF StartsWith(line, "mod") THEN [s EXCEPT !.loc = "mods", !.i = s.i + 1]
            ELSE IF StartsWith(line, "attr") THEN [s EXCEPT !.loc = "attrs", !.i = s.i + 1]
            ELSE [s EXCEPT !.i = s.i + 1]
        ELSE [s EXCEPT !.loc = "ret"]
    ELSE IF s.loc = "mods" THEN
        IF s.i <= Len(ls) /\ ~StartsWith(ls[s.i], "attr")
        THEN [s EXCEPT !.modules = Append(s.modules, StripLine(ls[s.i])), !.i = s.i + 1]
        ELSE [s EXCEPT !.loc = "outer"]
    ELSE IF s.loc = "attrs" THEN
        IF s.i <= Len(ls)
        THEN [s EXCEPT !.attrs = Append(s.attrs, StripLine(ls[s.i])), !.i = s.i + 1]
        ELSE [s EXCEPT !.loc = "ret"]
    ELSE s

\* The dict of line 176.
ScanResult(s) ==
    [total |-> s.total, power |-> s.power, modules |-> s.modules, attrs |-> s.attrs]

\* Faulty variant of CatchAndReturnEmpty: no catch-all handler, the exception
\* leaves parse_log_file.
PropagateException ==
    /\ ioerr' = TRUE
    /\ ppc' = "raised"
    /\ UNCHANGED ret

\* lines 144-145: except Exception: return []
CatchAndReturnEmpty ==
    /\ ioerr' = TRUE
    /\ ret' = <<>>
    /\ ppc' = "returned"

\* line 128: open(path, ...)
OpenFile ==
    /\ ppc = "open"
    /\ IF readable
       THEN ppc' = "read" /\ UNCHANGED <<ioerr, ret>>
       ELSE CatchAndReturnEmpty
    /\ UNCHANGED <<file, readable, nread, lines, parts, idx, combos, blines, scan>>
    /\ UNCHANGED restOfParse

\* Faulty variant of ReadLine: the statistics line is skipped (`continue`)
\* instead of ending the loop (`break`).
ReadLineSkipsStatistics ==
    /\ ppc = "read"
    /\ nread < Len(file)
    /\ LET stripped == StripLine(file[nread + 1]) IN
       IF \/ StartsWith(stripped, "eq50")
          \/ StartsWith(stripped, "title")
          \/ StartsWith(stripped, "stat")
       THEN UNCHANGED lines
       ELSE IF stripped # <<>>
       THEN lines' = Append(lines, stripped)
       ELSE UNCHANGED lines
    /\ nread' = nread + 1
    /\ UNCHANGED <<file, readable, ppc, parts, idx, combos, blines, scan, ioerr, ret>>
    /\ UNCHANGED restOfParse

\* lines 130-137: one iteration of `for line in fh`
ReadLine ==
    /\ ppc = "read"
    /\ nread < Len(file)
    /\ LET stripped == StripLine(file[nread + 1]) IN
       IF StartsWith(stripped, "eq50") \/ StartsWith(stripped, "title")
       THEN UNCHANGED <<lines, ppc>>
       ELSE IF StartsWith(stripped, "stat")
       THEN ppc' = "split" /\ UNCHANGED lines
       ELSE IF stripped # <<>>
       THEN lines' = Append(lines, stripped) /\ UNCHANGED ppc
       ELSE UNCHANGED <<lines, ppc>>
    /\ nread' = nread + 1
    /\ UNCHANGED <<file, readable, parts, idx, combos, blines, scan, ioerr, ret>>
    /\ UNCHANGED restOfParse

\* line 130: the iterator is exhausted
EndOfFile ==
    /\ ppc = "read"
    /\ nread = Len(file)
    /\ ppc' = "split"
    /\ UNCHANGED <<file, readable, nread, lines, parts, idx, combos, blines, scan, ioerr, ret>>
    /\ UNCHANGED restOfParse

\* line 130: reading the next line raises (an I/O error of the device)
ReadError ==
    /\ ppc = "read"
    /\ nread < Len(file)
    /\ CatchAndReturnEmpty
    /\ UNCHANGED <<file, readable, nread, lines, parts, idx, combos, blines, scan>>
    /\ UNCHANGED restOfParse

\* lines 138-140
SplitText ==
    /\ ppc = "split"
    /\ parts' = ReSplit(Join(lines))
    /\ idx' = 1
    /\ ppc' = "blocks"
    /\ UNCHANGED <<file, readable, nread, lines, combos, blines, scan, ioerr, ret>>
    /\ UNCHANGED restOfParse

\* lines 141-143: `for i in range(1, len(parts), 2)` takes the next block and
\* calls _parse_block on it; lines 151-156.  idx is Python's i.
StartBlock ==
    /\ ppc = "blocks"
    /\ idx < Len(parts)
    /\ blines' = BlockLines(At0(parts, idx + 1))
    /\ scan' = ScanInit
    /\ ppc' = "scan"
    /\ UNCHANGED <<file, readable, nread, lines, parts, idx, combos, ioerr, ret>>
    /\ UNCHANGED restOfParse

\* lines 157-175: one loop step of _parse_block
ScanLine ==
    /\ ppc = "scan"
    /\ scan.loc # "ret"
    /\ scan' = ScanStep(blines, scan)
    /\ UNCHANGED <<file, readable, ppc, nread, lines, parts, idx, combos, blines, ioerr, ret>>
    /\ UNCHANGED restOfParse

\* Faulty variant of FinishBlock: the new record is put in front of the
\* earlier ones.
FinishBlockPrepends ==
    /\ ppc = "scan"
    /\ scan.loc = "ret"
    /\ combos' = <<ScanResult(scan)>> \o combos
    /\ idx' = idx + 2
    /\ ppc' = "blocks"
    /\ UNCHANGED <<file, readable, nread, lines, parts, blines, scan, ioerr, ret>>
    /\ UNCHANGED restOfParse

\* line 176, line 143: _parse_block returns and the dict is appended
FinishBlock ==
    /\ ppc = "scan"
    /\ scan.loc = "ret"
    /\ combos' = Append(combos, ScanResult(scan))
    /\ idx' = idx + 2
    /\ ppc' = "blocks"
    /\ UNCHANGED <<file, readable, nread, lines, parts, blines, scan, ioerr, ret>>
    /\ UNCHANGED restOfParse

\* line 146
ReturnCombos ==
    /\ ppc = "blocks"
    /\ idx >= Len(parts)
    /\ ret' = combos
    /\ ppc' = "returned"
    /\ UNCHANGED <<file, readable, nread, lines, parts, idx, combos, blines, scan, ioerr>>
    /\ UNCHANGED restOfParse

ParseNext ==
    \/ OpenFile
    \/ ReadLine
    \/ EndOfFile
    \/ ReadError
    \/ SplitText
    \/ StartBlock
    \/ ScanLine
    \/ FinishBlock
    \/ ReturnCombos

(***************************************************************************)
(*                    _parse_block called on one block                     *)
(***************************************************************************)

\* Longest block, in raw lines, that is enumerated.
MaxBlockLines == 4

\* The raw lines a block is made of: marker lines, two of them indented, an
\* ordinary line and a blank one.
BlockLineChoices ==
    { <<"tot", "x">>, <<"sp", "tot", "y">>, <<"pow", "x">>,
      <<"mod">>, <<"attr">>, <<"sp", "attr">>, <<"x">>, <<"sp">> }

\* `rec` while the call runs.
NoRecord == [running |-> TRUE]

\* lines 149-156: the call, the four empty locals and the list of non-blank lines
EnterBlock ==
    /\ ppc = "call"
    /\ blines' = BlockLines(block)
    /\ scan' = ScanInit
    /\ ppc' = "scan"
    /\ UNCHANGED <<file, readable, nread, lines, parts, idx, combos, ioerr, ret>>
    /\ UNCHANGED <<block, rec>>
    /\ UNCHANGED <<dvars, cvars, gvars, lvars>>

\* line 176: return {...}
ReturnRecord ==
    /\ ppc = "scan"
    /\ scan.loc = "ret"
    /\ rec' = ScanResult(scan)
    /\ ppc' = "blockret"
    /\ UNCHANGED <<file, readable, nread, lines, parts, idx, combos, blines, scan, ioerr, ret>>
    /\ UNCHANGED block
    /\ UNCHANGED <<dvars, cvars, gvars, lvars>>

BlockNext ==
    \/ EnterBlock
    \/ ScanLine
    \/ ReturnRecord

(***************************************************************************)
(*                            CollectionStore                              *)
(* toggle is an existence check followed by a write or a delete: two steps *)
(* of the persistence surface.  A record is its field values together with *)
(* the order in which its fields were attached.                            *)
(***************************************************************************)

\* Most toggle calls begun in one run.
MaxToggles == 3

Callers == {1, 2}

\* Two records with the same field values attached in two orders, and a third
\* with other values.
Records == {[values |-> "v1", order |-> "ab"],
            [values |-> "v1", order |-> "ba"],
            [values |-> "v2", order |-> "ab"]}

\* The serialisation with the field names sorted: the attachment order is gone.
Canonical(r) == [values |-> r.values, order |-> "sorted"]

\* key_of: the hash of the canonical serialisation.
KeyOf(r) == <<"hash", Canonical(r).values>>

Keys == {KeyOf(r) : r \in Records}

\* The key-value surface: has, put, delete, list.
Present(st, k) == \E u \in st : u[1] = k
Delete(st, k) == {u \in st : u[1] # k}
Put(st, k, v) == Delete(st, k) \cup {<<k, v>>}
ListAllOf(st) == {u[2] : u \in st}

\* The stores a run can start from: any set of entries toggle has persisted.
Stores == {{<<k, [values |-> k[2], order |-> "sorted"]>> : k \in ks} : ks \in SUBSET Keys}

\* A caller passes a record to toggle.
BeginToggle(p, r) ==
    /\ cpc[p] = "idle"
    /\ started < MaxToggles
    /\ started' = started + 1
    /\ arg' = [arg EXCEPT ![p] = r]
    /\ cpc' = [cpc EXCEPT ![p] = IF locking THEN "lock" ELSE "check"]
    /\ UNCHANGED <<store, ncallers, locking, lock, seen, reports, listed>>
    /\ UNCHANGED restOfStore

\* Faulty variant of AcquireLock: the mutex is granted whoever holds it.
AcquireLockAlwaysGranted(p) ==
    /\ cpc[p] = "lock"
    /\ lock' = [lock EXCEPT ![KeyOf(arg[p])] = p]
    /\ cpc' = [cpc EXCEPT ![p] = "check"]
    /\ UNCHANGED <<store, ncallers, locking, arg, seen, started, reports, listed>>
    /\ UNCHANGED restOfStore

\* Serialised toggle: take the mutex of the record's key.
AcquireLock(p) ==
    /\ cpc[p] = "lock"
    /\ lock[KeyOf(arg[p])] = 0
    /\ lock' = [lock EXCEPT ![KeyOf(arg[p])] = p]
    /\ cpc' = [cpc EXCEPT ![p] = "check"]
    /\ UNCHANGED <<store, ncallers, locking, arg, seen, started, reports, listed>>
    /\ UNCHANGED restOfStore

\* toggle, first step: does an entry exist at key_of(record)
CheckExists(p) ==
    /\ cpc[p] = "check"
    /\ seen' = [seen EXCEPT ![p] = Present(store, KeyOf(arg[p]))]
    /\ cpc' = [cpc EXCEPT ![p] = "act"]
    /\ UNCHANGED <<store, ncallers, locking, lock, arg, started, reports, listed>>
    /\ UNCHANGED restOfStore

\* What a finished toggle call leaves in `reports`.
Report(p, answer, after) ==
    [who |-> p, record |-> arg[p], key |-> KeyOf(arg[p]), seen |-> seen[p],
     report |-> answer, before |-> store, after |-> after]

\* Faulty variant of WriteOrDelete: favoriting as set union, an entry that
\* exists is left in place.
WriteOrDeleteSetUnion(p) ==
    /\ cpc[p] = "act"
    /\ LET k == KeyOf(arg[p])
           after == Put(store, k, Canonical(arg[p]))
       IN  /\ store' = after
           /\ reports' = Append(reports, Report(p, "Favorited", after))
    /\ cpc' = [cpc EXCEPT ![p] = IF locking THEN "unlock" ELSE "idle"]
    /\ UNCHANGED <<ncallers, locking, lock, arg, seen, started, listed>>
    /\ UNCHANGED restOfStore

\* toggle, second step: delete the entry that was found and report
\* Unfavorited, or persist the record and report Favorited.  Deleting an
\* entry that is gone by now changes nothing; the surface may accept it or
\* fail with a persistence error.
WriteOrDelete(p) ==
    /\ cpc[p] = "act"
    /\ LET k == KeyOf(arg[p]) IN
       IF seen[p]
       THEN /\ store' = Delete(store, k)
            /\ \E answer \in IF Present(store, k)
                               THEN {"Unfavorited"}
                               ELSE {"Unfavorited", "PersistenceError"} :
                   reports' = Append(reports, Report(p, answer, Delete(store, k)))
       ELSE /\ store' = Put(store, k, Canonical(arg[p]))
            /\ reports' = Append(reports,
                                 Report(p, "Favorited", Put(store, k, Canonical(arg[p]))))
    /\ cpc' = [cpc EXCEPT ![p] = IF locking THEN "unlock" ELSE "idle"]
    /\ UNCHANGED <<ncallers, locking, lock, arg, seen, started, listed>>
    /\ UNCHANGED restOfStore

\* Serialised toggle: give the mutex back.
ReleaseLock(p) ==
    /\ cpc[p] = "unlock"
    /\ lock' = [lock EXCEPT ![KeyOf(arg[p])] = 0]
    /\ cpc' = [cpc EXCEPT ![p] = "idle"]
    /\ UNCHANGED <<store, ncallers, locking, arg, seen, started, reports, listed>>
    /\ UNCHANGED restOfStore

\* list_all: every persisted entry, in no particular order.
ListAll ==
    /\ ncallers > 0
    /\ listed # ListAllOf(store)
    /\ listed' = ListAllOf(store)
    /\ UNCHANGED <<store, ncallers, locking, lock, cpc, arg, seen, started, reports>>
    /\ UNCHANGED restOfStore

StoreNext ==
    \/ \E p \in 1..ncallers : \E r \in Records : BeginToggle(p, r)
    \/ \E p \in 1..ncallers : AcquireLock(p)
    \/ \E p \in 1..ncallers : CheckExists(p)
    \/ \E p \in 1..ncallers : WriteOrDelete(p)
    \/ \E p \in 1..ncallers : ReleaseLock(p)
    \/ ListAll

(***************************************************************************)
(*             The solve button, SolverWorker and its subprocess           *)
(* The GUI thread runs one handler at a time.  A SolverWorker is a thread  *)
(* of its own; its signals reach the window through the event queue of the *)
(* GUI thread, in the order of their emission.                             *)
(***************************************************************************)

\* Most clicks on the solve button in one run.
MaxSolves == 2

\* Most lines one solver subprocess writes.
MaxOutput == 2

Workers == 1..MaxSolves

\* The text of line 286; the text of the n-th line of a subprocess is <<"line", n>>.
ErrorText == <<"Error running solver">>

OutputSignal(w, t) == [sig |-> "output_signal", from |-> w, text |-> t]
FinishedSignal(w) == [sig |-> "finished_signal", from |-> w, text |-> <<>>]

\* signal.emit(...) in the thread of worker w: the slot is queued for the GUI thread
Emit(w, signal) ==
    /\ emitted' = [emitted EXCEPT ![w] = Append(emitted[w], signal)]
    /\ events' = Append(events, signal)

\* lines 711-730: on_solve, run by a click on the enabled solve button
OnSolve ==
    /\ solve_button
    /\ solver_worker < MaxSolves
    /\ output_edit' = 0
    /\ loading_label' = TRUE
    /\ solve_button' = FALSE
    /\ solver_worker' = solver_worker + 1
    /\ wpc' = [wpc EXCEPT ![solver_worker + 1] = "popen"]
    /\ UNCHANGED <<result_window, proc, written, pending, emitted, events>>
    /\ UNCHANGED restOfSolve

\* lines 732-736: append_output, run by a queued output_signal
AppendOutput ==
    /\ events # <<>>
    /\ Head(events).sig = "output_signal"
    /\ events' = Tail(events)
    /\ output_edit' = output_edit + 1
    /\ UNCHANGED <<solve_button, loading_label, result_window, solver_worker,
                   wpc, proc, written, pending, emitted>>
    /\ UNCHANGED restOfSolve

\* lines 738-758: on_solver_finished, run by a queued finished_signal; whether
\* a result window opens depends on the newest log file
OnSolverFinished ==
    /\ events # <<>>
    /\ Head(events).sig = "finished_signal"
    /\ events' = Tail(events)
    /\ loading_label' = FALSE
    /\ solve_button' = TRUE
    /\ \E combos_found \in BOOLEAN : result_window' = (result_window \/ combos_found)
    /\ UNCHANGED <<output_edit, solver_worker, wpc, proc, written, pending, emitted>>
    /\ UNCHANGED restOfSolve

\* lines 271-278: subprocess.Popen starts the solver or raises
StartProcess(w) ==
    /\ wpc[w] = "popen"
    /\ \/ /\ proc' = [proc EXCEPT ![w] = "running"]
          /\ wpc' = [wpc EXCEPT ![w] = "stream"]
       \/ /\ wpc' = [wpc EXCEPT ![w] = "except"]
          /\ UNCHANGED proc
    /\ UNCHANGED <<solve_button, loading_label, output_edit, result_window, solver_worker,
                   written, pending, emitted, events>>
    /\ UNCHANGED restOfSolve

\* The solver subprocess writes a line to its output.
ProcessWrites(w) ==
    /\ proc[w] = "running"
    /\ written[w] < MaxOutput
    /\ written' = [written EXCEPT ![w] = written[w] + 1]
    /\ pending' = [pending EXCEPT ![w] = Append(pending[w], <<"line", written[w] + 1>>)]
    /\ UNCHANGED <<solve_button, loading_label, output_edit, result_window, solver_worker,
                   wpc, proc, emitted, events>>
    /\ UNCHANGED restOfSolve

\* The solver subprocess ends; its output is closed.
ProcessExits(w) ==
    /\ proc[w] = "running"
    /\ proc' = [proc EXCEPT ![w] = "ended"]
    /\ UNCHANGED <<solve_button, loading_label, output_edit, result_window, solver_worker,
                   wpc, written, pending, emitted, events>>
    /\ UNCHANGED restOfSolve

\* lines 281-282: one line is read and emitted
EmitLine(w) ==
    /\ wpc[w] = "stream"
    /\ pending[w] # <<>>
    /\ Emit(w, OutputSignal(w, Head(pending[w])))
    /\ pending' = [pending EXCEPT ![w] = Tail(pending[w])]
    /\ UNCHANGED <<solve_button, loading_label, output_edit, result_window, solver_worker,
                   wpc, proc, written>>
    /\ UNCHANGED restOfSolve

\* line 281: reading the output raises (a line that cannot be decoded)
ReadRaises(w) ==
    /\ wpc[w] = "stream"
    /\ pending[w] # <<>>
    /\ pending' = [pending EXCEPT ![w] = Tail(pending[w])]
    /\ wpc' = [wpc EXCEPT ![w] = "except"]
    /\ UNCHANGED <<solve_button, loading_label, output_edit, result_window, solver_worker,
                   proc, written, emitted, events>>
    /\ UNCHANGED restOfSolve

\* lines 281, 283: the output is at its end, and process.wait() returns
EndOfOutput(w) ==
    /\ wpc[w] = "stream"
    /\ pending[w] = <<>>
    /\ proc[w] = "ended"
    /\ wpc' = [wpc EXCEPT ![w] = "finally"]
    /\ UNCHANGED <<solve_button, loading_label, output_edit, result_window, solver_worker,
                   proc, written, pending, emitted, events>>
    /\ UNCHANGED restOfSolve

\* Faulty variant of EmitError: the error is emitted and the exception is
\* raised again past a finished_signal that is emitted in the try block only.
EmitErrorThenLeave(w) ==
    /\ wpc[w] = "except"
    /\ Emit(w, OutputSignal(w, ErrorText))
    /\ wpc' = [wpc EXCEPT ![w] = "return"]
    /\ UNCHANGED <<solve_button, loading_label, output_edit, result_window, solver_worker,
                   proc, written, pending>>
    /\ UNCHANGED restOfSolve

\* lines 284-286: except Exception
EmitError(w) ==
    /\ wpc[w] = "except"
    /\ Emit(w, OutputSignal(w, ErrorText))
    /\ wpc' = [wpc EXCEPT ![w] = "finally"]
    /\ UNCHANGED <<solve_button, loading_label, output_edit, result_window, solver_worker,
                   proc, written, pending>>
    /\ UNCHANGED restOfSolve

\* lines 287-288: finally
EmitFinished(w) ==
    /\ wpc[w] = "finally"
    /\ Emit(w, FinishedSignal(w))
    /\ wpc' = [wpc EXCEPT ![w] = "return"]
    /\ UNCHANGED <<solve_button, loading_label, output_edit, result_window, solver_worker,
                   proc, written, pending>>
    /\ UNCHANGED restOfSolve

\* run() returns and the thread ends
ThreadEnds(w) ==
    /\ wpc[w] = "return"
    /\ wpc' = [wpc EXCEPT ![w] = "done"]
    /\ UNCHANGED <<solve_button, loading_label, output_edit, result_window, solver_worker,
                   proc, written, pending, emitted, events>>
    /\ UNCHANGED restOfSolve

SolveNext ==
    \/ OnSolve
    \/ AppendOutput
    \/ OnSolverFinished
    \/ \E w \in Workers : StartProcess(w)
    \/ \E w \in Workers : ProcessWrites(w)
    \/ \E w \in Workers : ProcessExits(w)
    \/ \E w \in Workers : EmitLine(w)
    \/ \E w \in Workers : ReadRaises(w)
    \/ \E w \in Workers : EndOfOutput(w)
    \/ \E w \in Workers : EmitError(w)
    \/ \E w \in Workers : EmitFinished(w)
    \/ \E w \in Workers : ThreadEnds(w)

(***************************************************************************)
(*                             setup_logging                               *)
(* What the file system does (can a log directory be made, can the log     *)
(* file be opened) is an input of each call.                               *)
(***************************************************************************)

\* Most calls of setup_logging in one run.
MaxCalls == 3

\* logging.DEBUG, logging.INFO, logging.WARNING
DEBUG == 10
INFO == 20
WARNING == 30
Levels == {DEBUG, INFO, WARNING}

\* os.makedirs of lines 35-45: "logs" made, else the fallback made, else neither.
DirAnswers == {"logs", "fallback", "none"}

\* A call: its two parameters and the answers of the file system.
Calls ==
    [level : Levels, debug_mode : BOOLEAN, dir : DirAnswers, file_opens : BOOLEAN]

\* `last_call` before the first call.
NoCall == [level |-> INFO, debug_mode |-> FALSE, dir |-> "none", file_opens |-> FALSE]

\* lines 23-25
EffectiveLevel(c) == IF c.debug_mode THEN DEBUG ELSE c.level

\* lines 57-68: the console handler, and the file handler when there is a log
\* directory and the file can be opened
NewHandlers(c, k) ==
    <<[kind |-> "console", level |-> EffectiveLevel(c), call |-> k]>>
    \o (IF c.dir # "none" /\ c.file_opens
        THEN <<[kind |-> "file", level |-> EffectiveLevel(c), call |-> k]>>
        ELSE <<>>)

\* lines 92-97: two records of level INFO, handled by each handler that lets them pass
RecordsHandled(hs) == 2 * Cardinality({i \in 1..Len(hs) : hs[i].level <= INFO})

\* lines 23-97, the body after the guard
Configure(c) ==
    /\ log_dirs' = IF c.dir = "none" THEN log_dirs ELSE log_dirs \cup {c.dir}
    /\ log_files' = IF c.dir # "none" /\ c.file_opens
                    THEN log_files \cup {ncalls + 1}
                    ELSE log_files
    /\ root_level' = EffectiveLevel(c)
    /\ handlers' = handlers \o NewHandlers(c, ncalls + 1)
    /\ excepthook' = ncalls + 1
    /\ logged' = logged + (IF EffectiveLevel(c) <= INFO
                           THEN RecordsHandled(handlers \o NewHandlers(c, ncalls + 1))
                           ELSE 0)

\* Faulty variant of SetupLogging: no guard, every call configures.
SetupLoggingNoGuard(c) ==
    /\ ncalls < MaxCalls
    /\ ncalls' = ncalls + 1
    /\ last_call' = c
    /\ Configure(c)
    /\ UNCHANGED restOfLogging

\* lines 11-97: setup_logging(level, debug_mode)
SetupLogging(c) ==
    /\ ncalls < MaxCalls
    /\ ncalls' = ncalls + 1
    /\ last_call' = c
    /\ IF handlers # <<>>
       THEN UNCHANGED <<handlers, root_level, excepthook, log_dirs, log_files, logged>>
       ELSE Configure(c)
    /\ UNCHANGED restOfLogging

LoggingNext == \E c \in Calls : SetupLogging(c)

(***************************************************************************)
(* Specifications: one per routine.                                        *)
(***************************************************************************)
\* A call of load_vdata_from_file on some file; parse_log_file is not running.
DecodeInit ==
    /\ \/ blob = NoBlob
       \/ \E b \in SeqsUpTo(ByteClasses, MaxText) :
             \E bo \in BinOracles(b), po \in PadOracles(b), jo \in JsonOracles(b) :
                \E ro \in RawOracles(b, po) :
                   blob = BlobOf(b, bo, po, ro, jo)
    /\ dpc = "start"
    /\ text = <<>>
    /\ attempts = <<>>
    /\ result = NoResult
    /\ file = <<>>
    /\ readable = FALSE
    /\ ppc = "idle"
    /\ nread = 0
    /\ lines = <<>>
    /\ parts = <<>>
    /\ idx = 1
    /\ combos = <<>>
    /\ blines = <<>>
    /\ scan = ScanInit
    /\ ioerr = FALSE
    /\ ret = <<>>
    /\ block = <<>>
    /\ rec = NoRecord
    /\ store = {}
    /\ ncallers = 0
    /\ locking = FALSE
    /\ lock = [k \in Keys |-> 0]
    /\ cpc = [p \in Callers |-> "idle"]
    /\ arg = [p \in Callers |-> CHOOSE r \in Records : TRUE]
    /\ seen = [p \in Callers |-> FALSE]
    /\ started = 0
    /\ reports = <<>>
    /\ listed = {}
    /\ solve_button = TRUE
    /\ loading_label = FALSE
    /\ output_edit = 0
    /\ result_window = FALSE
    /\ solver_worker = 0
    /\ wpc = [w \in Workers |-> "unborn"]
    /\ proc = [w \in Workers |-> "none"]
    /\ written = [w \in Workers |-> 0]
    /\ pending = [w \in Workers |-> <<>>]
    /\ emitted = [w \in Workers |-> <<>>]
    /\ events = <<>>
    /\ handlers = <<>>
    /\ root_level = WARNING
    /\ excepthook = 0
    /\ log_dirs = {}
    /\ log_files = {}
    /\ logged = 0
    /\ ncalls = 0
    /\ last_call = NoCall

\* A call of parse_log_file on some log file; load_vdata_from_file is not running.
ParseInit ==
    /\ file \in SeqsUpTo(LineChoices, MaxLines)
    /\ readable \in BOOLEAN
    /\ ppc = "open"
    /\ nread = 0
    /\ lines = <<>>
    /\ parts = <<>>
    /\ idx = 1
    /\ combos = <<>>
    /\ blines = <<>>
    /\ scan = ScanInit
    /\ ioerr = FALSE
    /\ ret = <<>>
    /\ blob = NoBlob
    /\ dpc = "idle"
    /\ text = <<>>
    /\ attempts = <<>>
    /\ result = NoResult
    /\ block = <<>>
    /\ rec = NoRecord
    /\ store = {}
    /\ ncallers = 0
    /\ locking = FALSE
    /\ lock = [k \in Keys |-> 0]
    /\ cpc = [p \in Callers |-> "idle"]
    /\ arg = [p \in Callers |-> CHOOSE r \in Records : TRUE]
    /\ seen = [p \in Callers |-> FALSE]
    /\ started = 0
    /\ reports = <<>>
    /\ listed = {}
    /\ solve_button = TRUE
    /\ loading_label = FALSE
    /\ output_edit = 0
    /\ result_window = FALSE
    /\ solver_worker = 0
    /\ wpc = [w \in Workers |-> "unborn"]
    /\ proc = [w \in Workers |-> "none"]
    /\ written = [w \in Workers |-> 0]
    /\ pending = [w \in Workers |-> <<>>]
    /\ emitted = [w \in Workers |-> <<>>]
    /\ events = <<>>
    /\ handlers = <<>>
    /\ root_level = WARNING
    /\ excepthook = 0
    /\ log_dirs = {}
    /\ log_files = {}
    /\ logged = 0
    /\ ncalls = 0
    /\ last_call = NoCall

\* A call of _parse_block on some block; nothing else is running.
BlockInit ==
    /\ \E ls \in SeqsUpTo(BlockLineChoices, MaxBlockLines) : block = Join(ls)
    /\ rec = NoRecord
    /\ ppc = "call"
    /\ blines = <<>>
    /\ scan = ScanInit
    /\ file = <<>>
    /\ readable = FALSE
    /\ nread = 0
    /\ lines = <<>>
    /\ parts = <<>>
    /\ idx = 1
    /\ combos = <<>>
    /\ ioerr = FALSE
    /\ ret = <<>>
    /\ blob = NoBlob
    /\ dpc = "idle"
    /\ text = <<>>
    /\ attempts = <<>>
    /\ result = NoResult
    /\ store = {}
    /\ ncallers = 0
    /\ locking = FALSE
    /\ lock = [k \in Keys |-> 0]
    /\ cpc = [p \in Callers |-> "idle"]
    /\ arg = [p \in Callers |-> CHOOSE r \in Records : TRUE]
    /\ seen = [p \in Callers |-> FALSE]
    /\ started = 0
    /\ reports = <<>>
    /\ listed = {}
    /\ solve_button = TRUE
    /\ loading_label = FALSE
    /\ output_edit = 0
    /\ result_window = FALSE
    /\ solver_worker = 0
    /\ wpc = [w \in Workers |-> "unborn"]
    /\ proc = [w \in Workers |-> "none"]
    /\ written = [w \in Workers |-> 0]
    /\ pending = [w \in Workers |-> <<>>]
    /\ emitted = [w \in Workers |-> <<>>]
    /\ events = <<>>
    /\ handlers = <<>>
    /\ root_level = WARNING
    /\ excepthook = 0
    /\ log_dirs = {}
    /\ log_files = {}
    /\ logged = 0
    /\ ncalls = 0
    /\ last_call = NoCall

\* One caller toggles records one call after the other.
ToggleInit ==
    /\ store \in Stores
    /\ ncallers = 1
    /\ locking \in BOOLEAN
    /\ lock = [k \in Keys |-> 0]
    /\ cpc = [p \in Callers |-> "idle"]
    /\ arg = [p \in Callers |-> CHOOSE r \in Records : TRUE]
    /\ seen = [p \in Callers |-> FALSE]
    /\ started = 0
    /\ reports = <<>>
    /\ listed = ListAllOf(store)
    /\ solve_button = TRUE
    /\ loading_label = FALSE
    /\ output_edit = 0
    /\ result_window = FALSE
    /\ solver_worker = 0
    /\ wpc = [w \in Workers |-> "unborn"]
    /\ proc = [w \in Workers |-> "none"]
    /\ written = [w \in Workers |-> 0]
    /\ pending = [w \in Workers |-> <<>>]
    /\ emitted = [w \in Workers |-> <<>>]
    /\ events = <<>>
    /\ handlers = <<>>
    /\ root_level = WARNING
    /\ excepthook = 0
    /\ log_dirs = {}
    /\ log_files = {}
    /\ logged = 0
    /\ ncalls = 0
    /\ last_call = NoCall
    /\ file = <<>>
    /\ readable = FALSE
    /\ ppc = "idle"
    /\ nread = 0
    /\ lines = <<>>
    /\ parts = <<>>
    /\ idx = 1
    /\ combos = <<>>
    /\ blines = <<>>
    /\ scan = ScanInit
    /\ ioerr = FALSE
    /\ ret = <<>>
    /\ block = <<>>
    /\ rec = NoRecord
    /\ blob = NoBlob
    /\ dpc = "idle"
    /\ text = <<>>
    /\ attempts = <<>>
    /\ result = NoResult

\* Two callers toggle records with nothing but the optional mutex between them.
RaceInit ==
    /\ store \in Stores
    /\ ncallers = 2
    /\ locking \in BOOLEAN
    /\ lock = [k \in Keys |-> 0]
    /\ cpc = [p \in Callers |-> "idle"]
    /\ arg = [p \in Callers |-> CHOOSE r \in Records : TRUE]
    /\ seen = [p \in Callers |-> FALSE]
    /\ started = 0
    /\ reports = <<>>
    /\ listed = ListAllOf(store)
    /\ solve_button = TRUE
    /\ loading_label = FALSE
    /\ output_edit = 0
    /\ result_window = FALSE
    /\ solver_worker = 0
    /\ wpc = [w \in Workers |-> "unborn"]
    /\ proc = [w \in Workers |-> "none"]
    /\ written = [w \in Workers |-> 0]
    /\ pending = [w \in Workers |-> <<>>]
    /\ emitted = [w \in Workers |-> <<>>]
    /\ events = <<>>
    /\ handlers = <<>>
    /\ root_level = WARNING
    /\ excepthook = 0
    /\ log_dirs = {}
    /\ log_files = {}
    /\ logged = 0
    /\ ncalls = 0
    /\ last_call = NoCall
    /\ file = <<>>
    /\ readable = FALSE
    /\ ppc = "idle"
    /\ nread = 0
    /\ lines = <<>>
    /\ parts = <<>>
    /\ idx = 1
    /\ combos = <<>>
    /\ blines = <<>>
    /\ scan = ScanInit
    /\ ioerr = FALSE
    /\ ret = <<>>
    /\ block = <<>>
    /\ rec = NoRecord
    /\ blob = NoBlob
    /\ dpc = "idle"
    /\ text = <<>>
    /\ attempts = <<>>
    /\ result = NoResult

\* The window after its construction (lines 516-524, 608-613): the overlay
\* hidden, the solve button enabled, no worker yet.
SolveInit ==
    /\ solve_button = TRUE
    /\ loading_label = FALSE
    /\ output_edit = 0
    /\ result_window = FALSE
    /\ solver_worker = 0
    /\ wpc = [w \in Workers |-> "unborn"]
    /\ proc = [w \in Workers |-> "none"]
    /\ written = [w \in Workers |-> 0]
    /\ pending = [w \in Workers |-> <<>>]
    /\ emitted = [w \in Workers |-> <<>>]
    /\ events = <<>>
    /\ handlers = <<>>
    /\ root_level = WARNING
    /\ excepthook = 0
    /\ log_dirs = {}
    /\ log_files = {}
    /\ logged = 0
    /\ ncalls = 0
    /\ last_call = NoCall
    /\ store = {}
    /\ ncallers = 0
    /\ locking = FALSE
    /\ lock = [k \in Keys |-> 0]
    /\ cpc = [p \in Callers |-> "idle"]
    /\ arg = [p \in Callers |-> CHOOSE r \in Records : TRUE]
    /\ seen = [p \in Callers |-> FALSE]
    /\ started = 0
    /\ reports = <<>>
    /\ listed = {}
    /\ file = <<>>
    /\ readable = FALSE
    /\ ppc = "idle"
    /\ nread = 0
    /\ lines = <<>>
    /\ parts = <<>>
    /\ idx = 1
    /\ combos = <<>>
    /\ blines = <<>>
    /\ scan = ScanInit
    /\ ioerr = FALSE
    /\ ret = <<>>
    /\ block = <<>>
    /\ rec = NoRecord
    /\ blob = NoBlob
    /\ dpc = "idle"
    /\ text = <<>>
    /\ attempts = <<>>
    /\ result = NoResult

\* The interpreter before the first call: the root logger has no handler and
\* its level is WARNING, sys.excepthook is the interpreter's own.
LoggingInit ==
    /\ handlers = <<>>
    /\ root_level = WARNING
    /\ excepthook = 0
    /\ log_dirs = {}
    /\ log_files = {}
    /\ logged = 0
    /\ ncalls = 0
    /\ last_call = NoCall
    /\ solve_button = TRUE
    /\ loading_label = FALSE
    /\ output_edit = 0
    /\ result_window = FALSE
    /\ solver_worker = 0
    /\ wpc = [w \in Workers |-> "unborn"]
    /\ proc = [w \in Workers |-> "none"]
    /\ written = [w \in Workers |-> 0]
    /\ pending = [w \in Workers |-> <<>>]
    /\ emitted = [w \in Workers |-> <<>>]
    /\ events = <<>>
    /\ store = {}
    /\ ncallers = 0
    /\ locking = FALSE
    /\ lock = [k \in Keys |-> 0]
    /\ cpc = [p \in Callers |-> "idle"]
    /\ arg = [p \in Callers |-> CHOOSE r \in Records : TRUE]
    /\ seen = [p \in Callers |-> FALSE]
    /\ started = 0
    /\ reports = <<>>
    /\ listed = {}
    /\ file = <<>>
    /\ readable = FALSE
    /\ ppc = "idle"
    /\ nread = 0
    /\ lines = <<>>
    /\ parts = <<>>
    /\ idx = 1
    /\ combos = <<>>
    /\ blines = <<>>
    /\ scan = ScanInit
    /\ ioerr = FALSE
    /\ ret = <<>>
    /\ block = <<>>
    /\ rec = NoRecord
    /\ blob = NoBlob
    /\ dpc = "idle"
    /\ text = <<>>
    /\ attempts = <<>>
    /\ result = NoResult

SpecDecode == DecodeInit /\ [][DecodeNext]_vars

SpecParse == ParseInit /\ [][ParseNext]_vars

SpecBlock == BlockInit /\ [][BlockNext]_vars

SpecToggle == ToggleInit /\ [][StoreNext]_vars

SpecRace == RaceInit /\ [][StoreNext]_vars

SpecSolve == SolveInit /\ [][SolveNext]_vars

SpecLogging == LoggingInit /\ [][LoggingNext]_vars

(***************************************************************************)
(*              Properties of load_vdata_from_file (SpecDecode)            *)
(***************************************************************************)

\* The decode attempts in the order of the source text.
AttemptOrder ==
    <<"binWrapper", "binDirect", "utf8", "base64", "jsonLoads", "jsonDirect", "jsonWrapper">>

\* The attempt `step` on file b produces a container (stated from the library
\* verdicts on the file, not from the actions).
Yields(b, step) ==
    CASE step = "binWrapper"  -> b.wrap = "hasV"
      [] step = "binDirect"   -> b.direct = "ok"
      [] step = "base64"      -> b.rawDirect = "ok"
      [] step = "jsonDirect"  -> b.json = "valid" /\ b.jd = "ok"
      [] step = "jsonWrapper" -> b.json = "valid" /\ b.jw = "hasV"
      [] OTHER                -> FALSE

Returned == dpc = "done" /\ result.kind = "return"
Raised == dpc = "done" /\ result.kind = "raise"

\* C1: the attempts are made in the one fixed order binary wrapper, binary
\* direct, UTF-8, base64, JSON (direct, then wrapper); an attempt is made only
\* when every earlier attempt produced no container; the call returns the
\* container of the attempt that produced one and makes no further attempt;
\* a wrapper message without VData is not returned and the direct binary
\* attempt follows it.
C1_FixedOrderFirstSuccess ==
    /\ IsPrefix(attempts, AttemptOrder)
    /\ \A k \in 1..(Len(attempts) - 1) : ~Yields(blob, attempts[k])
    /\ result.kind = "return" =>
          /\ attempts # <<>>
          /\ result.step = attempts[Len(attempts)]
          /\ Yields(blob, result.step)
    /\ result.kind # "none" => dpc = "done" /\ ~ENABLED DecodeNext
    /\ (blob.exists /\ blob.wrap = "noV" /\ dpc \notin {"start", "s1", "s2"}) =>
          /\ Len(attempts) >= 2
          /\ attempts[2] = "binDirect"
          /\ ~(result.kind = "return" /\ result.step = "binWrapper")

\* A wrapper without VData fell through and the direct attempt returned.
C1_Witness ==
    /\ Returned
    /\ blob.wrap = "noV"
    /\ result.step = "binDirect"
    /\ attempts = <<"binWrapper", "binDirect">>

\* C2: a buffer that is a wrapper message with VData present is decoded to
\* exactly that VData, also when the same bytes parse as a direct message.
C2_WrapperPrecedence ==
    (blob.exists /\ blob.wrap = "hasV" /\ dpc = "done") =>
        /\ result = Return("binWrapper", "bin.VData")
        /\ attempts = <<"binWrapper">>

C2_Witness ==
    /\ Returned
    /\ blob.wrap = "hasV"
    /\ blob.direct = "ok"
    /\ result.value = "bin.VData"

\* C3: a buffer that step 1 does not return and that parses as a direct
\* message is returned by step 2; UTF-8, base64 and JSON are never attempted
\* for it, also when its bytes are valid base64 or JSON text.
C3_DirectAtStepTwo ==
    (blob.exists /\ blob.wrap # "hasV" /\ blob.direct = "ok") =>
        /\ Range(attempts) \subseteq {"binWrapper", "binDirect"}
        /\ dpc \in {"start", "s1", "s2", "done"}
        /\ dpc = "done" => result = Return("binDirect", "bin")

\* The bytes are base64 text of a direct message as well, or JSON of one.
C3_Witness ==
    /\ Returned
    /\ result.step = "binDirect"
    /\ blob.wrap # "hasV"
    /\ blob.bytes # <<>>
    /\ \/ blob.rawDirect = "ok"
       \/ blob.json = "valid" /\ blob.jd = "ok"

\* C4: a buffer that fails both binary attempts and is not valid UTF-8 makes
\* the call fail with the not-text error; base64 and JSON are never attempted.
C4_NotText ==
    (blob.exists /\ blob.wrap # "hasV" /\ blob.direct = "err" /\ ~Utf8Valid(blob.bytes)) =>
        /\ Range(attempts) \subseteq {"binWrapper", "binDirect", "utf8"}
        /\ dpc \in {"start", "s1", "s2", "s3", "done"}
        /\ dpc = "done" => result = Raise("ValueError", "NotText", "none")

C4_Witness ==
    /\ Raised
    /\ result.msg = "NotText"
    /\ ~Utf8Valid(blob.bytes)
    /\ attempts = <<"binWrapper", "binDirect", "utf8">>

\* The characters of the decoded file content that are outside the base64
\* alphabet and its padding.
NonBase64Chars(s) == Range(s) \ {"A", "="}

\* t is s without its leading and trailing whitespace, nothing else removed.
IsStripOf(t, s) ==
    \E i \in 1..(Len(s) + 1) : \E j \in 0..Len(s) :
        /\ t = SubSeq(s, i, j)
        /\ \A k \in 1..Len(s) : (k < i \/ k > j) => s[k] = "ws"
        /\ (t # <<>> => t[1] # "ws" /\ t[Len(t)] # "ws")

\* C5 as stated: the decoded text is taken as it is, so a text with any
\* character outside the base64 alphabet is not returned by the base64 step.
C5_StrictOnWholeText ==
    (blob.exists /\ result.kind = "return" /\ result.step = "base64") =>
        NonBase64Chars(blob.bytes) = {}

\* C5 (amended): the base64 step works on the decoded text with its leading and
\* trailing whitespace removed; when any character outside the alphabet is
\* left in that text (inner whitespace included) the step returns nothing and
\* json.loads is attempted next; the step returns only for a text of alphabet
\* characters and trailing padding whose decoded bytes parse as a direct
\* message.
C5_StrictAfterStrip ==
    /\ dpc \in {"s3a", "s3b", "s3b1", "s3b2"} => IsStripOf(text, blob.bytes)
    /\ (result.kind = "return" /\ result.step = "base64") =>
          /\ IsStripOf(text, blob.bytes)
          /\ NonBase64Chars(text) = {}
          /\ \A k \in 1..(Len(text) - 1) : text[k] = "=" => text[k + 1] = "="
          /\ blob.rawDirect = "ok"
    /\ ("base64" \in Range(attempts) /\ NonBase64Chars(text) # {}) =>
          /\ ~(result.kind = "return" /\ result.step = "base64")
          /\ dpc = "s3b" \/ (Len(attempts) >= 5 /\ attempts[5] = "jsonLoads")

\* Base64 text followed by a newline is returned by the base64 step.
C5_Witness ==
    /\ Returned
    /\ result.step = "base64"
    /\ text # <<>>
    /\ text # blob.bytes

\* C6: in the JSON step the direct schema is tried first and returned when it
\* parses; the wrapper schema is tried only after that failed, and its VData is
\* returned only when present: a JSON wrapper without VData is never a success.
C6_JsonDirectThenWrapper ==
    /\ "jsonWrapper" \in Range(attempts) =>
          /\ blob.jd = "err"
          /\ Len(attempts) = 7
          /\ attempts[6] = "jsonDirect"
    /\ ("jsonDirect" \in Range(attempts) /\ dpc = "done") =>
          /\ blob.jd = "ok" => result = Return("jsonDirect", "json")
          /\ (blob.jd = "err" /\ blob.jw = "hasV") =>
                result = Return("jsonWrapper", "json.VData")
          /\ (blob.jd = "err" /\ blob.jw # "hasV") => result.kind = "raise"

\* A JSON wrapper without VData, parsed after the direct schema failed.
C6_Witness ==
    /\ Raised
    /\ blob.json = "valid"
    /\ blob.jd = "err"
    /\ blob.jw = "noV"
    /\ attempts[Len(attempts)] = "jsonWrapper"

\* The file is text for which neither the binary attempts, nor base64, nor
\* any JSON attempt produces a container.
TextNothingMatches ==
    /\ blob.exists
    /\ blob.wrap # "hasV"
    /\ blob.direct = "err"
    /\ Utf8Valid(blob.bytes)
    /\ blob.rawDirect # "ok"
    /\ ~(blob.json = "valid" /\ (blob.jd = "ok" \/ blob.jw = "hasV"))

\* C7 as stated: every such text, text that is no JSON at all included, fails
\* with the one Unrecognized error, which carries no diagnostic of an attempt.
C7_SingleUnrecognized ==
    (TextNothingMatches /\ dpc = "done") =>
        result = Raise("ValueError", "Unrecognized", "none")

\* C7 (amended): such a text fails with the Unrecognized error without a
\* diagnostic when it is JSON that fits neither schema, and with a separate
\* invalid-JSON error that carries the JSON decoder's diagnostic when it is
\* not JSON; both are ValueErrors, as the not-text error is, and differ from
\* it in their message.
C7_UnrecognizedOrNotJson ==
    (TextNothingMatches /\ dpc = "done") =>
        /\ blob.json = "valid" => result = Raise("ValueError", "Unrecognized", "none")
        /\ blob.json = "invalid" => result = Raise("ValueError", "NotJson", "JSONDecodeError")
        /\ result.msg # "NotText"

C7_Witness ==
    /\ TextNothingMatches
    /\ Raised
    /\ blob.json = "invalid"
    /\ result.diag = "JSONDecodeError"

(***************************************************************************)
(*                 Properties of parse_log_file (SpecParse)                *)
(***************************************************************************)

\* The call returned without an exception having been raised inside it.
ReturnedNormally == ppc = "returned" /\ ~ioerr

Stripped(k) == StripLine(file[k])

\* Index of the first line that starts with the statistics marker, or one past
\* the last line when there is none.
FirstStat ==
    LET hits == {k \in 1..Len(file) : StartsWith(Stripped(k), "stat")}
    IN  IF hits = {} THEN Len(file) + 1
        ELSE CHOOSE k \in hits : \A j \in hits : k <= j

\* The non-blank lines among the first n that start neither with fifty "="
\* nor with the report title, stripped, in file order.
KeptAmong(n) ==
    SelectSeq([k \in 1..n |-> Stripped(k)],
              LAMBDA l : l # <<>> /\ ~StartsWith(l, "eq50") /\ ~StartsWith(l, "title"))

\* C9: the lines kept by the pre-filter are exactly the non-blank lines before
\* the first statistics line that start neither with fifty "=" nor with the
\* report title, in file order (a line is judged and kept without its
\* surrounding whitespace); nothing at or after the statistics line is kept,
\* so a log whose statistics line precedes every block header yields [].
C9_PreFilter ==
    /\ ppc = "read" => /\ nread < FirstStat
                       /\ lines = KeptAmong(nread)
    /\ (ppc \in {"split", "blocks", "scan"} \/ ReturnedNormally) =>
          lines = KeptAmong(FirstStat - 1)
    /\ ( /\ ReturnedNormally
         /\ FirstStat <= Len(file)
         /\ \A k \in 1..Len(file) :
                (\E c \in Range(file[k]) : IsHeader(c)) => k >= FirstStat ) =>
          ret = <<>>

\* A kept line, then the statistics line, then a block header that is dropped.
C9_Witness ==
    /\ ReturnedNormally
    /\ FirstStat = 2
    /\ Len(file) = 3
    /\ \E c \in Range(file[3]) : IsHeader(c)
    /\ Len(lines) = 1
    /\ ret = <<>>

\* C10: every returned record carries the rank captured from its own block
\* header (the k-th record the digits of the k-th header), unchanged.
C10_RecordsCarryRank ==
    ReturnedNormally =>
        \A k \in 1..Len(ret) :
            /\ "rank" \in DOMAIN ret[k]
            /\ ret[k].rank = At0(parts, 2 * k - 1)

\* The positions of the block headers in a text, and the k-th of them.
HeaderPositions(t) == {p \in 1..Len(t) : IsHeader(t[p])}

KthHeader(t, k) ==
    CHOOSE p \in HeaderPositions(t) :
        Cardinality({q \in HeaderPositions(t) : q < p}) = k - 1

\* The text between the k-th header and the next header or the end of the text.
TextAfterHeader(t, k) ==
    LET from == KthHeader(t, k) + 1
        to   == IF k < Cardinality(HeaderPositions(t))
                THEN KthHeader(t, k + 1) - 1
                ELSE Len(t)
    IN  SubSeq(t, from, to)

\* _parse_block run to its return on one block.
RECURSIVE RunScan(_, _)
RunScan(ls, s) == IF s.loc = "ret" THEN s ELSE RunScan(ls, ScanStep(ls, s))

RecordOf(blk) == ScanResult(RunScan(BlockLines(blk), ScanInit))

\* C11: parse_log_file returns exactly one record per block header of the
\* filtered text, in the order the headers occur in it (never sorted by rank):
\* the k-th record is what _parse_block makes of the text between the k-th
\* header and the next header or the end of the filtered text.
C11_OneRecordPerHeaderInOrder ==
    ReturnedNormally =>
        LET t == Join(lines) IN
        /\ Len(ret) = Cardinality(HeaderPositions(t))
        /\ \A k \in 1..Len(ret) : ret[k] = RecordOf(TextAfterHeader(t, k))

\* Two blocks ranked 2 then 1 with different contents: the record of the
\* rank-2 block comes first.
C11_Witness ==
    /\ ReturnedNormally
    /\ Len(ret) = 2
    /\ LET t == Join(lines) IN
       /\ t[KthHeader(t, 1)] = "h2"
       /\ t[KthHeader(t, 2)] = "h1"
       /\ ret[1] = RecordOf(TextAfterHeader(t, 1))
    /\ ret[1] # ret[2]

\* Is the header at position p of the text inside a line: text of the same
\* line stands before it and after it.
MidLine(t, p) ==
    /\ p > 1 /\ t[p - 1] # "nl"
    /\ p < Len(t) /\ t[p + 1] # "nl"

\* The text before the first header, the whole text when there is no header.
TextBeforeFirstHeader(t) ==
    IF HeaderPositions(t) = {} THEN t ELSE SubSeq(t, 1, KthHeader(t, 1) - 1)

\* C23: the block header is recognised anywhere in the filtered text, not only
\* as a whole line.  Every header of the text, wherever it stands in its line,
\* ends the piece before it at the text before the header and opens a block
\* with the text after it, up to the next header or the end of the text; the
\* pieces are the text before the first header, then for each header its rank
\* and its block.  The text before the first header is handed to no call of
\* _parse_block: the records are those of the blocks alone, and a filtered text
\* without any header yields the empty result.
C23_HeaderAnywhere ==
    LET t == Join(lines)
        n == Cardinality(HeaderPositions(t))
    IN  /\ ((ppc \in {"blocks", "scan"} \/ ReturnedNormally) =>
              /\ Len(parts) = 2 * n + 1
              /\ parts[1] = TextBeforeFirstHeader(t)
              /\ \A k \in 1..n :
                    /\ parts[2 * k] = RankDigits(t[KthHeader(t, k)])
                    /\ parts[2 * k + 1] = TextAfterHeader(t, k)
              /\ \A j \in 1..Len(parts) : \A c \in Range(parts[j]) : ~IsHeader(c))
        /\ (ppc = "scan" =>
              /\ idx \in {2 * k - 1 : k \in 1..n}
              /\ blines = BlockLines(TextAfterHeader(t, (idx + 1) \div 2)))
        /\ (ReturnedNormally =>
              /\ Len(ret) = n
              /\ \A k \in 1..n : ret[k] = RecordOf(parts[2 * k + 1])
              /\ n = 0 => ret = <<>>)

\* A total line before the first header, a whole-line header, and a second
\* header in the middle of the last line: two records; the first block ends at
\* the text before the second header, the second block is the text after it,
\* and the total line before the first header is in neither record.
C23_Witness ==
    /\ ReturnedNormally
    /\ lines = << <<"tot", "x">>, <<"h1">>, <<"x", "h2", "attr">> >>
    /\ MidLine(Join(lines), KthHeader(Join(lines), 2))
    /\ parts = << <<"tot", "x", "nl">>, <<"1">>, <<"nl", "x">>, <<"2">>, <<"attr">> >>
    /\ Len(ret) = 2
    /\ ret[1].total = <<>>
    /\ ret[2].total = <<>>

(***************************************************************************)
(*                    Properties of _parse_block (SpecBlock)               *)
(***************************************************************************)

\* The k-th non-blank line of the block as the outer loop judges it (line 158).
BStripped(k) == StripLine(blines[k])

\* The first line that opens a section: the module list or the attribute
\* distribution; Len(blines) + 1 when no line does.
FirstSection ==
    LET hits == {k \in 1..Len(blines) :
                    StartsWith(BStripped(k), "mod") \/ StartsWith(BStripped(k), "attr")}
    IN  IF hits = {} THEN Len(blines) + 1
        ELSE CHOOSE k \in hits : \A j \in hits : k <= j

\* The last of the first n lines that starts with `marker`, <<>> when none does.
LastAmong(n, marker) ==
    LET hits == {k \in 1..n : StartsWith(BStripped(k), marker)}
    IN  IF hits = {} THEN <<>>
        ELSE BStripped(CHOOSE k \in hits : \A j \in hits : j <= k)

\* C12: while no section of the block has been entered, each line starting with
\* the total-attribute-value marker overwrites total and each line starting
\* with the combat-power marker overwrites power, so the returned record holds
\* the last such line before the first section line, and the empty string when
\* there is none (a line is judged and kept without its surrounding whitespace).
C12_LastWriteWinsBeforeSections ==
    /\ (ppc = "scan" /\ scan.i <= FirstSection) =>
          /\ scan.total = LastAmong(scan.i - 1, "tot")
          /\ scan.power = LastAmong(scan.i - 1, "pow")
    /\ ppc = "blockret" =>
          /\ rec.total = LastAmong(FirstSection - 1, "tot")
          /\ rec.power = LastAmong(FirstSection - 1, "pow")

\* Two different total lines before the module list and a third one inside it:
\* the record holds the second.
C12_Witness ==
    /\ ppc = "blockret"
    /\ Len(blines) = 4
    /\ FirstSection = 3
    /\ BStripped(1) = <<"tot", "x">>
    /\ BStripped(2) = <<"tot", "y">>
    /\ BStripped(4) = <<"tot", "x">>
    /\ rec.total = <<"tot", "y">>
    /\ rec.power = <<>>

\* A step of the scan that looks at line scan.i of the block.
AtLine == ppc = "scan" /\ scan.i <= Len(blines)

\* C13: inside the module list every line - a total or power line too - is
\* appended to modules and nothing else changes, until a line starting with
\* the attribute-distribution marker or the end of the block; that line is not
\* appended and not skipped: the marker checks see it next and it opens the
\* attribute-distribution section.  "Starting with" is judged as the marker
\* checks of the block judge it, without the surrounding whitespace.
C13_ModuleListUntilAttrLine ==
    [][ /\ (AtLine /\ scan.loc = "mods" /\ ~StartsWith(BStripped(scan.i), "attr")) =>
              scan' = [scan EXCEPT !.modules = Append(scan.modules, BStripped(scan.i)),
                                   !.i = scan.i + 1]
        /\ (AtLine /\ scan.loc = "mods" /\ StartsWith(BStripped(scan.i), "attr")) =>
              scan' = [scan EXCEPT !.loc = "outer"]
        /\ (AtLine /\ scan.loc = "outer" /\ StartsWith(BStripped(scan.i), "attr")) =>
              scan' = [scan EXCEPT !.loc = "attrs", !.i = scan.i + 1]
        /\ (ppc = "scan" /\ scan.loc = "mods" /\ scan.i > Len(blines)) =>
              scan'.modules = scan.modules
      ]_vars

\* The line at which the marker checks open the attribute distribution, 0 when
\* they never do: the first section line when it is an attribute-distribution
\* line, else the line that ends the module loop (judged there as line 165
\* does, on the raw line).
AttrOpener ==
    IF FirstSection > Len(blines) THEN 0
    ELSE IF StartsWith(BStripped(FirstSection), "attr") THEN FirstSection
    ELSE LET hits == {k \in (FirstSection + 1)..Len(blines) : StartsWith(blines[k], "attr")}
         IN  IF hits = {} THEN 0
             ELSE CHOOSE k \in hits : \A j \in hits : k <= j

\* The lines after line a, stripped.
LinesAfter(a) == [k \in 1..(Len(blines) - a) |-> BStripped(a + k)]

\* C14: the attribute-distribution section is terminal for the block: once it
\* is open every remaining line is appended to attrs whatever it starts with,
\* and total, power and modules never change again; the returned attrs are all
\* the lines after the one that opened the section.
C14_AttrSectionTerminal ==
    [][ /\ (ppc = "scan" /\ scan.loc = "attrs") =>
              scan' = IF scan.i <= Len(blines)
                      THEN [scan EXCEPT !.attrs = Append(scan.attrs, BStripped(scan.i)),
                                        !.i = scan.i + 1]
                      ELSE [scan EXCEPT !.loc = "ret"]
        /\ (ppc = "scan" /\ scan.loc # "attrs" /\ scan'.loc = "attrs") =>
              /\ scan.i = AttrOpener
              /\ scan.attrs = <<>>
        /\ ppc' = "blockret" =>
              rec' = [total |-> scan.total, power |-> scan.power, modules |-> scan.modules,
                      attrs |-> IF AttrOpener = 0 THEN <<>> ELSE LinesAfter(AttrOpener)]
      ]_vars

\* A total line and a module-list line after the attribute-distribution line:
\* both end up in attrs, total and modules stay empty.
C14_Witness ==
    /\ ppc = "blockret"
    /\ AttrOpener = 1
    /\ Len(blines) >= 3
    /\ \E j, k \in 2..Len(blines) :
          /\ StartsWith(BStripped(j), "tot")
          /\ StartsWith(BStripped(k), "mod")
    /\ rec.attrs = LinesAfter(1)
    /\ rec.total = <<>>
    /\ rec.modules = <<>>

\* Does the block open a module list: is its first section line a module-list line.
HasModuleList ==
    FirstSection <= Len(blines) /\ StartsWith(BStripped(FirstSection), "mod")

\* C15: a block with no module-list section yields modules == [] and no error
\* (the scan never reads past the last line), and so does a block whose
\* module-list line is the last line or is directly followed by a line starting
\* with the attribute-distribution marker.  "Starting with" is judged as the
\* marker checks of the block judge it, without the surrounding whitespace.
C15_EmptyModuleList ==
    /\ ppc = "scan" => scan.i \in 1..(Len(blines) + 1)
    /\ (ppc = "blockret" /\ ~HasModuleList) => rec.modules = <<>>
    /\ ( /\ ppc = "blockret"
         /\ HasModuleList
         /\ \/ FirstSection = Len(blines)
            \/ StartsWith(BStripped(FirstSection + 1), "attr") ) =>
          rec.modules = <<>>

\* The state of the line scanner: SEEKING while the marker checks look for the
\* first section line, MODULES from the module-list line on (the module loop,
\* and the marker checks once that loop has ended), ATTRS in the
\* attribute-distribution loop, RETURN at line 176.
Phase(s) ==
    IF s.loc = "attrs" THEN "ATTRS"
    ELSE IF s.loc = "mods" THEN "MODULES"
    ELSE IF s.loc = "ret" THEN "RETURN"
    ELSE IF s.i > FirstSection THEN "MODULES"
    ELSE "SEEKING"

PhaseRank(s) ==
    CASE Phase(s) = "SEEKING" -> 0
      [] Phase(s) = "MODULES" -> 1
      [] Phase(s) = "ATTRS"   -> 2
      [] Phase(s) = "RETURN"  -> 3

\* n consecutive lines of the block from line a + 1 on, stripped.
RunOfLines(a, n) == [k \in 1..n |-> BStripped(a + k)]

\* C21: within one block the scanner only moves forward, SEEKING -> MODULES ->
\* ATTRS or SEEKING -> ATTRS, never back.  The module list is entered at most
\* once, at the first section line; once it was entered the marker checks run
\* again only to open the attribute distribution or to leave the loop.  So
\* modules is one contiguous run of block lines (those after the module-list
\* line), attrs is a suffix of the block's lines, and every line of modules
\* precedes every line of attrs in the block.
C21_ScannerOnlyMovesForward ==
    [][ /\ (ppc = "scan" /\ ppc' = "scan") =>
              /\ PhaseRank(scan') >= PhaseRank(scan)
              /\ (Phase(scan) = "SEEKING" /\ scan'.loc = "outer") =>
                     Phase(scan') = "SEEKING"
              /\ (scan.loc # "mods" /\ scan'.loc = "mods") =>
                     /\ Phase(scan) = "SEEKING"
                     /\ scan.i = FirstSection
                     /\ scan.modules = <<>>
              /\ (scan.loc = "outer" /\ Phase(scan) = "MODULES") =>
                     /\ scan'.loc \in {"attrs", "ret"}
                     /\ scan'.total = scan.total
                     /\ scan'.power = scan.power
              /\ scan'.modules # <<>> =>
                     /\ HasModuleList
                     /\ scan'.modules = RunOfLines(FirstSection, Len(scan'.modules))
              /\ scan'.attrs = RunOfLines(scan'.i - 1 - Len(scan'.attrs), Len(scan'.attrs))
        /\ ppc' = "blockret" =>
              LET m == Len(rec'.modules)
                  a == Len(rec'.attrs)
              IN  /\ m > 0 => rec'.modules = RunOfLines(FirstSection, m)
                  /\ rec'.attrs = RunOfLines(Len(blines) - a, a)
                  /\ (m > 0 /\ a > 0) => FirstSection + m < Len(blines) - a + 1
      ]_vars

\* A module list that holds a module-list line, then the attribute
\* distribution: the second module-list line is a module, the list is not
\* entered again, and the one module precedes the one attribute line.
C21_Witness ==
    /\ ppc = "blockret"
    /\ Len(blines) = 4
    /\ FirstSection = 1
    /\ BStripped(1) = <<"mod">>
    /\ blines[2] = <<"mod">>
    /\ blines[3] = <<"attr">>
    /\ rec.modules = <<<<"mod">>>>
    /\ rec.attrs = <<BStripped(4)>>

\* The one role of the k-th non-blank line of the block, told from the block
\* alone: before the first section line a line is a total or power candidate or
\* is ignored; the first section line is a section marker; after a module-list
\* line the lines are modules up to the line that opens the attribute
\* distribution, which is a section marker; every line after that one is an
\* attribute line.
Role(k) ==
    IF k < FirstSection THEN
        IF StartsWith(BStripped(k), "tot") THEN "total"
        ELSE IF StartsWith(BStripped(k), "pow") THEN "power"
        ELSE "ignored"
    ELSE IF k = FirstSection THEN "marker"
    ELSE IF HasModuleList /\ (AttrOpener = 0 \/ k < AttrOpener) THEN "module"
    ELSE IF HasModuleList /\ k = AttrOpener THEN "marker"
    ELSE "attr"

\* The locals after line k was consumed in its role.
Consumed(s, k) ==
    LET line == BStripped(k) IN
    CASE Role(k) = "total"   -> [s EXCEPT !.total = line, !.i = k + 1]
      [] Role(k) = "power"   -> [s EXCEPT !.power = line, !.i = k + 1]
      [] Role(k) = "ignored" -> [s EXCEPT !.i = k + 1]
      [] Role(k) = "module"  -> [s EXCEPT !.modules = Append(s.modules, line), !.i = k + 1]
      [] Role(k) = "attr"    -> [s EXCEPT !.attrs = Append(s.attrs, line), !.i = k + 1]
      [] Role(k) = "marker"  ->
            [s EXCEPT !.loc = IF StartsWith(line, "mod") THEN "mods" ELSE "attrs",
                      !.i = k + 1]

\* The lines of one role, stripped, in block order.
LinesOfRole(r) ==
    LET idxs == SelectSeq([k \in 1..Len(blines) |-> k], LAMBDA k : Role(k) = r)
    IN  [j \in 1..Len(idxs) |-> BStripped(idxs[j])]

\* What is left to do: the lines not yet consumed, then the loops not yet left.
Measure(s) ==
    3 * (Len(blines) + 1 - s.i)
      + (CASE s.loc = "mods" -> 2 [] s.loc = "outer" -> 1 [] s.loc = "attrs" -> 1
           [] s.loc = "ret" -> 0)

\* C22: _parse_block terminates on every block.  Every pass through the body
\* of the outer or of an inner loop moves the line index forward by exactly
\* one, and a loop is left without moving it only at the end of the block or,
\* for the module loop, at the line that opens the attribute distribution; so
\* what is left to do shrinks with every step.  Each non-blank line is consumed
\* exactly once and in exactly one role (total candidate, power candidate,
\* section marker, module, attribute line, ignored): the returned modules and
\* attrs are the lines of those two roles, and no line is in both.
C22_TerminatesEachLineOneRole ==
    [][ /\ (ppc = "scan" /\ ppc' = "scan") =>
              /\ scan.i \in 1..(Len(blines) + 1)
              /\ scan'.i \in {scan.i, scan.i + 1}
              /\ Measure(scan') < Measure(scan)
              /\ Measure(scan') >= 0
              /\ scan'.i = scan.i + 1 => scan' = Consumed(scan, scan.i)
              /\ scan'.i = scan.i =>
                     /\ scan' = [scan EXCEPT !.loc = scan'.loc]
                     /\ \/ scan.i = Len(blines) + 1
                        \/ scan.loc = "mods" /\ Role(scan.i) = "marker"
        /\ ppc' = "blockret" =>
              /\ scan.i = Len(blines) + 1
              /\ rec'.modules = LinesOfRole("module")
              /\ rec'.attrs = LinesOfRole("attr")
              /\ Len(rec'.modules) + Len(rec'.attrs) + Len(LinesOfRole("marker"))
                   + Len(LinesOfRole("total")) + Len(LinesOfRole("power"))
                   + Len(LinesOfRole("ignored")) = Len(blines)
      ]_vars

\* The same total line once inside the module list and once inside the
\* attribute distribution: it is a module the first time and an attribute line
\* the second time, never a total, and both section lines are markers.
C22_Witness ==
    /\ ppc = "blockret"
    /\ Len(blines) = 4
    /\ <<Role(1), Role(2), Role(3), Role(4)>> = <<"marker", "module", "marker", "attr">>
    /\ BStripped(2) = <<"tot", "x">>
    /\ BStripped(4) = <<"tot", "x">>
    /\ rec.modules = << <<"tot", "x">> >>
    /\ rec.attrs = << <<"tot", "x">> >>
    /\ rec.total = <<>>

(***************************************************************************)
(*              Properties of CollectionStore (SpecToggle, SpecRace)       *)
(***************************************************************************)

\* No toggle call is between its first and its last step.
Quiescent == \A p \in Callers : cpc[p] = "idle"

\* The store the run started from.
InitialStore == IF reports = <<>> THEN store ELSE reports[1].before

\* The number of completed toggles of key k.
Toggled(k) == Cardinality({i \in 1..Len(reports) : reports[i].key = k})

\* What toggle is specified to do to a store: the report and the store after.
SerialToggle(st, r) ==
    IF Present(st, KeyOf(r))
    THEN [report |-> "Unfavorited", after |-> {u \in st : u[1] # KeyOf(r)}]
    ELSE [report |-> "Favorited",
          after |-> st \cup {<<KeyOf(r), [values |-> r.values, order |-> "sorted"]>>}]

\* Call i did to the store it acted on what toggle is specified to do.
ActedSerially(i) ==
    /\ reports[i].report = SerialToggle(reports[i].before, reports[i].record).report
    /\ reports[i].after = SerialToggle(reports[i].before, reports[i].record).after

\* A key is present exactly when its presence at the start has been flipped an
\* odd number of times.
ParityHolds ==
    \A k \in Keys :
        Present(store, k) = (Present(InitialStore, k) # (Toggled(k) % 2 = 1))

\* C16: toggle alternates on the membership of key_of(record): an entry found
\* at the key is deleted and Unfavorited reported, otherwise the record is
\* persisted at the key and Favorited reported; so with one caller a key is
\* present exactly when it has been toggled an odd number of times on top of
\* its presence at the start, two successive toggles of the same record on an
\* empty store report Favorited then Unfavorited, and list_all after two
\* successive toggles of a record equals list_all before them.
C16_ToggleAlternates ==
    /\ \A i \in 1..Len(reports) : ActedSerially(i)
    /\ ParityHolds
    /\ \A i \in 1..(Len(reports) - 1) :
          reports[i].key = reports[i + 1].key =>
              /\ ListAllOf(reports[i + 1].after) = ListAllOf(reports[i].before)
              /\ reports[i].before = {} =>
                    /\ reports[i].report = "Favorited"
                    /\ reports[i + 1].report = "Unfavorited"
                    /\ reports[i + 1].after = {}

\* From the empty store one record is toggled twice, its fields attached in a
\* different order the second time, and a third time: Favorited, Unfavorited,
\* Favorited, and the key is present after its odd number of toggles.
C16_Witness ==
    /\ Quiescent
    /\ Len(reports) = 3
    /\ InitialStore = {}
    /\ \A i \in 1..3 : reports[i].key = reports[1].key
    /\ reports[1].record # reports[2].record
    /\ reports[1].report = "Favorited"
    /\ reports[2].report = "Unfavorited"
    /\ ListAllOf(reports[2].after) = {}
    /\ reports[3].report = "Favorited"
    /\ Present(store, reports[1].key)
    /\ listed = ListAllOf(store)

\* Call i wrote or deleted on an existence check that no longer held.
ActedOnStaleCheck(i) ==
    reports[i].seen # Present(reports[i].before, reports[i].key)

\* Two callers are between the existence check and the end of toggle on one key.
Overlap ==
    \E p, q \in Callers :
        /\ p # q
        /\ cpc[p] \in {"check", "act", "unlock"}
        /\ cpc[q] \in {"check", "act", "unlock"}
        /\ KeyOf(arg[p]) = KeyOf(arg[q])

\* C17: with two callers and no locking, toggle calls on one key race: a call
\* departs from what a toggle does to the store it acts on only by acting on
\* an existence check that no longer holds, which is how two calls come to
\* report the same result and leave a key in a state that serial toggles
\* cannot produce; with toggle serialised per key no two calls on one key
\* overlap, every call acts as a serial toggle and the parity of the toggles
\* decides the presence of each key.
C17_RaceOnlyWithoutLocking ==
    /\ \A i \in 1..Len(reports) : ~ActedSerially(i) => (~locking /\ ActedOnStaleCheck(i))
    /\ ~ParityHolds => (~locking /\ \E i \in 1..Len(reports) : ActedOnStaleCheck(i))
    /\ locking => ~Overlap

\* Without locking, from the empty store: two calls on one key both find no
\* entry and both report Favorited (a lost update); the key is present after
\* two toggles, where two serial toggles leave it absent.
C17_Witness ==
    /\ ~locking
    /\ Quiescent
    /\ Len(reports) = 2
    /\ InitialStore = {}
    /\ reports[1].key = reports[2].key
    /\ reports[1].who # reports[2].who
    /\ reports[1].report = "Favorited" /\ reports[2].report = "Favorited"
    /\ ~reports[2].seen /\ Present(reports[2].before, reports[2].key)
    /\ Present(store, reports[2].key)
    /\ store # SerialToggle(SerialToggle(InitialStore, reports[1].record).after,
                            reports[2].record).after

\* The double delete: two calls on one key both find the entry and both
\* report Unfavorited, the second deleting an entry that is gone.
DoubleDeleteReached ==
    /\ ~locking
    /\ Quiescent
    /\ Len(reports) = 2
    /\ reports[1].key = reports[2].key
    /\ reports[1].who # reports[2].who
    /\ reports[1].report = "Unfavorited" /\ reports[2].report = "Unfavorited"
    /\ reports[2].seen /\ ~Present(reports[2].before, reports[2].key)
    /\ store # SerialToggle(SerialToggle(InitialStore, reports[1].record).after,
                            reports[2].record).after

(***************************************************************************)
(*        Properties of the solve button and SolverWorker (SpecSolve)      *)
(***************************************************************************)

\* The positions at which emitted[w] holds a finished_signal, and an error text.
FinishedAt(w) == {i \in 1..Len(emitted[w]) : emitted[w][i].sig = "finished_signal"}

ErrorAt(w) ==
    {i \in 1..Len(emitted[w]) : emitted[w][i] = OutputSignal(w, ErrorText)}

\* The first n lines of the subprocess of w, as output signals.
LineSignals(w, n) == [i \in 1..n |-> OutputSignal(w, <<"line", i>>)]

\* C18: every run of SolverWorker.run that has left its try statement has
\* emitted finished_signal exactly once and as its last emission, and a run
\* still inside has not emitted it: in a normal run it follows one
\* output_signal per line of the subprocess, in a run in which starting or
\* reading the subprocess raised it follows the lines read before and then the
\* single 'Error running solver' output_signal; nothing is emitted after it.
C18_FinishedOnceAndLast ==
    \A w \in Workers :
        LET e == emitted[w]
            n == Len(emitted[w])
        IN  /\ wpc[w] \in {"return", "done"} <=> FinishedAt(w) # {}
            /\ FinishedAt(w) \subseteq {n}
            /\ Cardinality(ErrorAt(w)) <= 1
            /\ wpc[w] \in {"return", "done"} =>
                  \/ /\ ErrorAt(w) = {}
                     /\ proc[w] = "ended"
                     /\ SubSeq(e, 1, n - 1) = LineSignals(w, written[w])
                  \/ /\ ErrorAt(w) = {n - 1}
                     /\ \E k \in 0..written[w] : SubSeq(e, 1, n - 2) = LineSignals(w, k)

\* The first worker ran normally and emitted two lines and then
\* finished_signal; the second read one line, failed on the next and emitted
\* the line, the error and then finished_signal.
C18_Witness ==
    /\ wpc[1] = "done"
    /\ emitted[1] = LineSignals(1, 2) \o <<FinishedSignal(1)>>
    /\ wpc[2] = "done"
    /\ emitted[2] = LineSignals(2, 1)
                    \o <<OutputSignal(2, ErrorText), FinishedSignal(2)>>

\* The SolverWorker threads that have been started and have not ended.
Running == {w \in Workers : wpc[w] \notin {"unborn", "done"}}

\* C19: the solve button prevents re-entry: in every state at most one
\* SolverWorker started by the window is running, the loading overlay is shown
\* exactly while the solve button is disabled, and the button is disabled as
\* long as the signals of the last worker have not all been delivered.
C19_NoReentry ==
    /\ Cardinality(Running) <= 1
    /\ loading_label = ~solve_button
    /\ (solver_worker > 0 /\ FinishedAt(solver_worker) = {}) => ~solve_button

(***************************************************************************)
(*                 Properties of setup_logging (SpecLogging)               *)
(***************************************************************************)

\* The handlers of one kind among hs.
OfKind(hs, kind) == {i \in 1..Len(hs) : hs[i].kind = kind}

\* C20: setup_logging configures the root logger at most once: a call made
\* when the root logger has a handler changes nothing (no handler added, the
\* level and sys.excepthook as they were, no log directory or log file made,
\* nothing logged), so after any number of calls the root logger holds the
\* handlers of the first call only: one console handler and at most one file
\* handler; the hook and the only log file are those of the first call.
C20_ConfiguredOnce ==
    [][ /\ handlers # <<>> =>
              UNCHANGED <<handlers, root_level, excepthook, log_dirs, log_files, logged>>
        /\ ncalls' > 0 =>
              /\ \A i \in 1..Len(handlers') : handlers'[i].call = 1
              /\ Cardinality(OfKind(handlers', "console")) = 1
              /\ Cardinality(OfKind(handlers', "file")) <= 1
              /\ Len(handlers') <= 2
              /\ excepthook' = 1
              /\ log_files' \subseteq {1}
      ]_vars

\* Three calls: the first, at WARNING, installed a console and a file handler;
\* the last asked for debug logging and could have opened a log file, and the
\* root logger is as the first call left it.
C20_Witness ==
    /\ ncalls = 3
    /\ last_call.debug_mode
    /\ last_call.dir = "logs"
    /\ last_call.file_opens
    /\ root_level = WARNING
    /\ handlers = <<[kind |-> "console", level |-> WARNING, call |-> 1],
                    [kind |-> "file", level |-> WARNING, call |-> 1]>>
    /\ excepthook = 1
    /\ log_files = {1}
    /\ logged = 0

====
